---- MODULE Spec2Model ----
(***************************************************************************)
(* A model of the native cluster broker of container-service-extension     *)
(* (src/container_service_extension/vcdbroker.py): the create_cluster      *)
(* orchestration with its rollback, the synchronous validation of resize   *)
(* and delete_nodes, the upgrade plan, the upgrade decision logic and the  *)
(* cluster-name validator.                                                 *)
(***************************************************************************)
EXTENDS Integers, Sequences, FiniteSets, TLC

(***************************************************************************)
(* Bounds of the model.                                                    *)
(***************************************************************************)
\* largest worker count a request asks for
MaxWorkers == 2
\* size of the pool the random 4-character node-name suffixes are drawn from
MaxIds == 2

\* an optional argument: None, or the value given
None == <<>>
Some(x) == <<x>>

(***************************************************************************)
(* Node types: the name prefix of a VM decides its role.                   *)
(***************************************************************************)
MASTER == "mstr"
WORKER == "node"
NFS == "nfsd"

NodeTypes == {MASTER, WORKER, NFS}
Ids == 1..MaxIds

\* a VM name "<prefix>-<suffix>", kept as its two parts
NodeName(type, id) == [prefix |-> type, suffix |-> id]

\* str.startswith(node_type) on a VM name
StartsWith(name, type) == name.prefix = type

(***************************************************************************)
(* is_valid_cluster_name.  A name is a sequence of characters.             *)
(***************************************************************************)
\* the longest name the validator lets through
MaxNameLen == 25
\* the longest label the pattern matches: {1,63}
MaxLabelLen == 63

Letters == {"a", "Z"}
Digits == {"7"}
Hyphen == "-"
Dot == "."
Newline == "\n"
\* a character outside the class and different from dot and newline
Underscore == "_"

Chars == Letters \cup Digits \cup {Hyphen, Dot, Newline, Underscore}

\* the character class [A-Z\d-] under re.IGNORECASE
InClass(c) == c \in Letters \cup Digits \cup {Hyphen}

Min(a, b) == IF a < b THEN a ELSE b

\* `$` without re.MULTILINE: the end of the string, or just before a newline
\* that is the last character of the string
DollarAt(x, k) ==
    \/ k = Len(x)
    \/ k = Len(x) - 1 /\ x[Len(x)] = Newline

\* allowed.match(x) for allowed = (?!-)[A-Z\d-]{1,63}(?<!-)$ : the match is
\* anchored at the start, consumes k characters of the class, k in 1..63,
\* the first and the k-th not a hyphen, and `$` must hold after them
LabelMatch(x) ==
    \E k \in 1..Min(MaxLabelLen, Len(x)) :
        /\ x[1] # Hyphen
        /\ \A i \in 1..k : InClass(x[i])
        /\ x[k] # Hyphen
        /\ DollarAt(x, k)

\* name.split("."): the labels between the dots, empty ones included
RECURSIVE Split(_)
Split(s) ==
    IF \A i \in 1..Len(s) : s[i] # Dot
    THEN <<s>>
    ELSE LET d == CHOOSE i \in 1..Len(s) :
                      s[i] = Dot /\ \A j \in 1..(i - 1) : s[j] # Dot
         IN  <<SubSeq(s, 1, d - 1)>> \o Split(SubSeq(s, d + 1, Len(s)))

\* name[-1] on the empty string raises IndexError
NameRaises(name) == Len(name) = 0

\* the value is_valid_cluster_name returns (for a name it does not raise on)
is_valid_cluster_name(name) ==
    IF Len(name) > MaxNameLen
    THEN FALSE
    ELSE LET stripped == IF name[Len(name)] = Dot
                         THEN SubSeq(name, 1, Len(name) - 1)
                         ELSE name
             labels == Split(stripped)
         IN  \A i \in 1..Len(labels) : LabelMatch(labels[i])

\* create_cluster goes on with the name: the validator returned True
NameAccepted(name) == ~NameRaises(name) /\ is_valid_cluster_name(name)

(***************************************************************************)
(* Templates of the server configuration, and get_template.                *)
(***************************************************************************)
\* str(n) and int(s) for revisions (ToStr, ParseInt): a string of decimal digits is kept as the
\* sequence of its digits; int("") raises ValueError
RECURSIVE ToStr(_)
ToStr(n) == IF n < 10 THEN <<n>> ELSE ToStr(n \div 10) \o <<n % 10>>

IntRaises(s) == Len(s) = 0

RECURSIVE ParseInt(_)
ParseInt(s) == IF Len(s) = 0 THEN 0
               ELSE 10 * ParseInt(SubSeq(s, 1, Len(s) - 1)) + s[Len(s)]

Template(name, revision, upgrade_from, docker, k8s, cni) ==
    [name |-> name, revision |-> revision, upgrade_from |-> upgrade_from,
     docker_version |-> docker, kubernetes_version |-> k8s,
     cni_version |-> cni]

\* config['broker']['templates'] of the running server
Templates ==
    << Template("photon-v2", 1, {}, <<1, 8>>, <<1, 14, 0>>, <<0, 6, 0>>),
       Template("photon-v2", 2, {"photon-v2"}, <<1, 9>>, <<1, 15, 0>>, <<0, 7, 0>>),
       Template("ubuntu", 1, {"photon-v2"}, <<1, 9>>, <<1, 15, 0>>, <<0, 7, 0>>) >>

default_template_name == "photon-v2"
default_template_revision == 1

TemplateNames == {Templates[i].name : i \in 1..Len(Templates)}
TemplateRevisions == {Templates[i].revision : i \in 1..Len(Templates)}

\* `x or default`: None is falsy
OrDefault(x, d) == IF x = None THEN d ELSE x[1]

\* indices of the templates get_template's loop would return, for the
\* resolved name and revision
TemplateMatches(name, revision) ==
    {i \in 1..Len(Templates) :
        /\ Templates[i].name = OrDefault(name, default_template_name)
        /\ ToStr(Templates[i].revision) =
               ToStr(OrDefault(revision, default_template_revision))}

\* get_template raises: one of name, revision given without the other, or no
\* template of the configuration matches
GetTemplateRaises(name, revision) ==
    \/ name = None /\ revision # None
    \/ name # None /\ revision = None
    \/ TemplateMatches(name, revision) = {}

\* the template get_template returns: the first match in list order
get_template(name, revision) ==
    LET m == TemplateMatches(name, revision)
    IN  Templates[CHOOSE i \in m : \A j \in m : i <= j]

(***************************************************************************)
(* Exceptions.  An exception is kept as its class and the step that raised *)
(* it; str(err) is that pair.  "Other" stands for an exception that is not *)
(* a cluster-operation error at all: a library or builtin exception        *)
(* (a failed vCD task, a vSphere connection failure, an IndexError).       *)
(***************************************************************************)
NoErr == [kind |-> "", step |-> ""]
Error(kind, step) == [kind |-> kind, step |-> step]

\* the classes named by the rollback branch of _create_cluster_async
RecognizedKinds ==
    {"MasterNodeCreationError", "WorkerNodeCreationError",
     "NFSNodeCreationError", "ClusterJoiningError",
     "ClusterInitializationError", "ClusterOperationError"}

\* the base class of an exception class (container_service_extension.exceptions)
Superclass(kind) ==
    CASE kind = "ScriptExecutionError" -> "NodeOperationError"
      [] kind = "NodeCreationError" -> "NodeOperationError"
      [] kind = "NodeOperationError" -> "ClusterOperationError"
      [] kind = "MasterNodeCreationError" -> "ClusterOperationError"
      [] kind = "WorkerNodeCreationError" -> "ClusterOperationError"
      [] kind = "NFSNodeCreationError" -> "ClusterOperationError"
      [] kind = "ClusterJoiningError" -> "ClusterOperationError"
      [] kind = "ClusterInitializationError" -> "ClusterOperationError"
      [] kind = "ClusterOperationError" -> "CseServerError"
      [] OTHER -> "Exception"

RECURSIVE IsInstance(_, _)
IsInstance(kind, cls) ==
    \/ kind = cls
    \/ kind # "Exception" /\ IsInstance(Superclass(kind), cls)

\* the first except clause of _create_cluster_async catches the exception
IsRecognized_All(kind) == TRUE
IsRecognized(kind) == \E c \in RecognizedKinds : IsInstance(kind, c)

(***************************************************************************)
(* add_nodes.                                                              *)
(***************************************************************************)
ExistingNames(v) == {vm.name : vm \in v}

NewVm(name, on) ==
    [name |-> name, on |-> on, joined |-> FALSE, drained |-> FALSE]

\* the lists of clone specs the naming loop can build: each name is drawn at
\* random and drawn again while a VM of the vApp already bears it
SpecLists(v, type, num) ==
    {s \in [1..num -> {NodeName(type, i) : i \in Ids}] :
        \A k \in 1..num : s[k] \notin ExistingNames(v)}

Distinct(s) == \A i, j \in 1..Len(s) : i # j => s[i] # s[j]

\* what one call of add_nodes can do to the VMs v of the vApp.  ok: it
\* returned; otherwise it raised NodeCreationError(node_names, ...).
\*  - a failure before the naming loop (catalog lookup): no spec was built;
\*  - the batch add_vms fails (always so when two specs bear the same name):
\*    no VM is added;
\*  - the batch is added, then resizing or powering on VM k+1 fails (for an
\*    NFS node also its NFS script, after it was powered on): all VMs of the
\*    batch are in the vApp, the first k powered on;
\*  - every step succeeds.
AddNodesOutcomes_NamesNotOn(v, type, num) ==
    LET lists == SpecLists(v, type, num)
        added(s, k) == v \cup {NewVm(s[i], i <= k) : i \in 1..num}
        lastOn == IF type = NFS THEN num ELSE num - 1
    IN  {[ok |-> FALSE, node_names |-> <<>>, vms |-> v]}
        \cup {[ok |-> FALSE, node_names |-> s, vms |-> v] : s \in lists}
        \cup {[ok |-> FALSE, node_names |-> SubSeq(s, k + 1, num),
               vms |-> added(s, k)] :
                  s \in {l \in lists : Distinct(l)}, k \in 0..lastOn}
        \cup {[ok |-> TRUE, node_names |-> s, vms |-> added(s, num)] :
                  s \in {l \in lists : Distinct(l)}}
AddNodesOutcomes(v, type, num) ==
    LET lists == SpecLists(v, type, num)
        added(s, k) == v \cup {NewVm(s[i], i <= k) : i \in 1..num}
        lastOn == IF type = NFS THEN num ELSE num - 1
    IN  {[ok |-> FALSE, node_names |-> <<>>, vms |-> v]}
        \cup {[ok |-> FALSE, node_names |-> s, vms |-> v] : s \in lists}
        \cup {[ok |-> FALSE, node_names |-> s, vms |-> added(s, k)] :
                  s \in {l \in lists : Distinct(l)}, k \in 0..lastOn}
        \cup {[ok |-> TRUE, node_names |-> s, vms |-> added(s, num)] :
                  s \in {l \in lists : Distinct(l)}}

\* get_node_names(vapp, node_type), in the order the vApp lists its VMs
RECURSIVE SortedNames(_)
SortedNames(S) ==
    IF S = {} THEN <<>>
    ELSE LET n == CHOOSE x \in S : \A y \in S : x.suffix <= y.suffix
         IN  <<n>> \o SortedNames(S \ {n})

get_node_names(v, type) ==
    SortedNames({vm.name : vm \in {w \in v : StartsWith(w.name, type)}})

\* get_script_execution_errors(results): the results with a non-zero exit
get_script_execution_errors_None(results) == {}
get_script_execution_errors(results) ==
    {i \in 1..Len(results) : results[i] # 0}

(***************************************************************************)
(* The state.                                                              *)
(***************************************************************************)
VARIABLES
    pc,           \* position of the create_cluster invocation
    req,          \* the validated request of the invocation
    cluster_id,   \* the uuid generated for the invocation
    vappExists,   \* whether the VM group (vApp) of the cluster exists
    tags,         \* metadata tags of the vApp
    vms,          \* the VMs of the vApp: [name, on, joined, drained]
    task,         \* the task of the invocation: [status, msg]
    err,          \* the exception being handled, or NoErr
    joinQueue,    \* the nodes the running loop has still to go through
    joinResults,  \* join_cluster: exit codes collected so far
    atFailure,    \* history: the vApp and its VMs when the failure was raised
    deleteIssued, \* history: vdc.delete_vapp has been called
    rollbackErr   \* history: the failure swallowed by the rollback, or NoErr

createVars == <<pc, req, cluster_id, vappExists, tags, vms, task, err,
                joinQueue, joinResults, atFailure, deleteIssued, rollbackErr>>

VARIABLES
    targets,      \* node operations: the node names the operation is about
    asked,        \* history: what the caller of the node operation asked for
    vms0          \* history: the VMs of the vApp when the operation was called

nodeVars == <<targets, asked, vms0>>

VARIABLES
    vname,        \* the name handed to is_valid_cluster_name
    vresult       \* what became of it: pending, accepted, rejected, raised

nameVars == <<vname, vresult>>

VARIABLES
    planTemplates, \* config['broker']['templates'] for the upgrade plan
    planCluster,   \* the cluster record get_cluster returned
    planResult     \* what get_cluster_upgrade_plan returned, or that it raised

planVars == <<planTemplates, planCluster, planResult>>

VARIABLES
    gCluster,     \* upgrade: the versions recorded in the cluster's metadata
    gTemplate,    \* upgrade: the versions the target template declares
    gFlags,       \* upgrade: upgrade_docker, upgrade_k8s, upgrade_cni
    gPhase        \* upgrade: position of the decision logic

gateVars == <<gCluster, gTemplate, gFlags, gPhase>>

VARIABLES
    steps,          \* history: the in-guest steps run so far, in order
    terminalWrites  \* history: how often the task was set SUCCESS or ERROR

histVars == <<steps, terminalWrites>>

VARIABLES
    xNodes,       \* execute_script_in_nodes: the node_names it was given
    xCheck,       \* its check_tools argument
    xWait,        \* its wait argument
    xPhase,       \* where it is: node, tools, poll, exec, running, ...
    xAt,          \* the index in node_names of the node it is at
    xProbes,      \* _wait_until_ready_to_exec: the probes made on this node
    xLast,        \* the exit code of the last of them, -1 before the first
    xResults,     \* all_results: [node, code] for each result appended
    xRunning,     \* history: indices of the nodes whose script is running
    xStarted,     \* history: indices of the nodes whose script was started
    xCause        \* history: what made the call raise

execVars == <<xNodes, xCheck, xWait, xPhase, xAt, xProbes, xLast, xResults,
              xRunning, xStarted, xCause>>

VARIABLES
    tObject,      \* _update_task: self.task is set
    tResource,    \* self.task_resource: None, or the href of the resource
    tTasks,       \* the tasks created in vCD so far; their hrefs are 1, 2, ...
    tLog,         \* history: [href, status] of every update applied
    tSync,        \* position of the broker function called
    tAsync,       \* position of its detached execution
    tLeft,        \* the updates the detached execution has still to make
    tReturned     \* None, or the task_href returned to the caller

taskVars == <<tObject, tResource, tTasks, tLog, tSync, tAsync, tLeft,
              tReturned>>

VARIABLES
    others,       \* the vApps of other clusters: [name, cluster_id, vdc]
    rbFound,      \* rollback: None, or the record get_cluster returned
    rbDeleted     \* history: the vApps the rollback has deleted

otherVars == <<others, rbFound, rbDeleted>>

VARIABLES
    lkName,       \* get_all_clusters: its cluster_name argument, or None
    lkVapps,      \* the vApps of the system: [id, name, meta]
    lkPhase,      \* q1, q2, returned, raised
    lkClusters,   \* the dictionary `clusters`: vApp id -> record
    lkTagged      \* history: the ids of the vApps tagged during the lookup

lookupVars == <<lkName, lkVapps, lkPhase, lkClusters, lkTagged>>

VARIABLES
    rzWorkers,    \* two resizes of one cluster: its worker VMs, counted
    rzWanted,     \* the worker count both ask for
    rzPc,         \* position of each invocation
    rzDelta,      \* the number of nodes each asked create_nodes for
    rzStatus      \* the task of each: none, RUNNING, SUCCESS, ERROR

resizeVars == <<rzWorkers, rzWanted, rzPc, rzDelta, rzStatus>>

\* the state of the models that stand on their own, and of the surroundings
auxVars == <<execVars, taskVars, otherVars, lookupVars, resizeVars>>

HistInit == steps = <<>> /\ terminalWrites = 0

\* the steps whose script is a list of kubectl commands naming the nodes
KubectlOps == {"drain", "uncordon", "kubectl_delete"}

\* the node names handed to run_script_in_nodes for a step about `nodes`:
\* [master_node_names[0]] for the kubectl scripts of _drain_nodes,
\* _uncordon_nodes and _delete_nodes, the nodes themselves for the others;
\* the steps that are calls of the vCD API run in no guest
ScriptHost_Targets(op, nodes) == nodes
ScriptHost(op, nodes) ==
    IF op \in KubectlOps
    THEN SubSeq(get_node_names(vms, MASTER), 1, 1)
    ELSE IF op \in {"metadata", "delete_vapp"} THEN <<>>
    ELSE nodes

\* one in-guest step: what was run, the nodes it was about, how it ended,
\* and the nodes in whose guest it was run
Step(op, nodes, result) ==
    [op |-> op, nodes |-> nodes, result |-> result,
     host |-> ScriptHost(op, nodes)]

\* how the log of steps records an exit code
ExitResult(code) == IF code = 0 THEN "ok" ELSE "nonzero"

notCreateVars == <<nodeVars, nameVars, auxVars, planVars, gateVars, histVars>>

vars == <<createVars, nodeVars, nameVars, auxVars, planVars, gateVars, histVars>>

(***************************************************************************)
(* create_cluster: the synchronous validation and the detached execution   *)
(* _create_cluster_async, one action per awaited call.                     *)
(***************************************************************************)
ClusterIds == {"uuid-a", "uuid-b"}

\* the cluster names requests are made with, and the names of the clusters
\* already visible in the requested org/VDC
ReqNames == {<<"a", "Z">>, <<"-", "a">>, <<"Z", "7">>, <<"7", "7">>}
VisibleClusterNames == {<<"Z", "7">>, <<"7", "7">>}
\* the names borne by two visible clusters
DuplicatedClusterNames == {<<"7", "7">>}
\* the name of the cluster the model follows, once it exists
ThisCluster == <<"a", "Z">>

NoTags == [cluster_id |-> "", template_name |-> "",
           template_revision |-> <<>>, master_ip |-> ""]
NoReq == [op |-> "none", cluster_name |-> <<>>, num_workers |-> 0,
          enable_nfs |-> FALSE, rollback |-> FALSE, template_name |-> "",
          template_revision |-> 0]
NoTask == [status |-> "none", msg |-> NoErr]

Running(step) == [status |-> "RUNNING", msg |-> Error("", step)]

\* `if rollback:` of the rollback branch
ShouldRollback_Always(rollback) == TRUE
ShouldRollback(rollback) == rollback

\* the message the task is marked ERROR with: str(err) of the exception the
\* except clause caught; the failure of the rollback (rerr) is only logged
ErrorMessage_Last(e, rerr) == IF rerr # NoErr THEN rerr ELSE e
ErrorMessage(e, rerr) == e

\* len(clusters) of get_cluster: the visible clusters of that name
ClustersNamed_None(name) == 0
ClustersNamed(name) ==
    (IF name \in DuplicatedClusterNames THEN 2
     ELSE IF name \in VisibleClusterNames THEN 1 ELSE 0)
    + (IF vappExists /\ tags.cluster_id # "" /\ name = ThisCluster
       THEN 1 ELSE 0)

\* get_cluster: the cluster record, or which error it raises
get_cluster(name) ==
    IF ClustersNamed(name) > 1 THEN "CseDuplicateClusterError"
    ELSE IF ClustersNamed(name) = 0 THEN "ClusterNotFoundError"
    ELSE "found"

\* get_cluster raises ClusterNotFoundError for the requested name
ClusterNotFound(name) == get_cluster(name) = "ClusterNotFoundError"

\* _update_task called from an exception handler raises (get_org, get_user
\* or the task update itself fails): the exception leaves the detached
\* execution and the task stays as it was
UpdateTaskRaises ==
    /\ pc' = "escaped"
    /\ UNCHANGED task

createVars_but_pc ==
    <<req, cluster_id, vappExists, tags, vms, task, err, joinQueue,
      joinResults, atFailure, deleteIssued, rollbackErr>>

CreateInit ==
    /\ pc = "idle"
    /\ req = NoReq
    /\ cluster_id = ""
    /\ vappExists = FALSE
    /\ tags = NoTags
    /\ vms = {}
    /\ task = NoTask
    /\ err = NoErr
    /\ joinQueue = <<>>
    /\ joinResults = <<>>
    /\ atFailure = [vappExists |-> FALSE, vms |-> {}]
    /\ deleteIssued = FALSE
    /\ rollbackErr = NoErr

\* create_cluster up to the dispatch of _create_cluster_async
CreateCluster ==
    /\ pc = "idle"
    /\ \E name \in ReqNames, n \in (-1)..MaxWorkers, nfs \in BOOLEAN,
          rb \in BOOLEAN, id \in ClusterIds,
          tn \in {None} \cup {Some(x) : x \in TemplateNames},
          tr \in {None} \cup {Some(x) : x \in TemplateRevisions} :
         /\ asked' = [op |-> "create_cluster", num |-> n, names |-> <<>>,
                      cluster_name |-> name]
         /\ IF \/ ~NameAccepted(name)
               \/ ~ClusterNotFound(name)
               \/ GetTemplateRaises(tn, tr)
               \/ n < 0
            THEN /\ pc' = "rejected"
                 /\ UNCHANGED <<req, cluster_id, task>>
            ELSE /\ req' = [op |-> "create_cluster",
                            cluster_name |-> name, num_workers |-> n,
                            enable_nfs |-> nfs, rollback |-> rb,
                            template_name |->
                                OrDefault(tn, get_template(tn, tr).name),
                            template_revision |->
                                OrDefault(tr, get_template(tn, tr).revision)]
                 /\ cluster_id' = id
                 /\ task' = Running("Creating cluster vApp from template")
                 /\ pc' = "get_org"
    /\ UNCHANGED <<vappExists, tags, vms, err, joinQueue, joinResults,
                   atFailure, deleteIssued, rollbackErr>>
    /\ UNCHANGED <<targets, vms0, nameVars, auxVars, planVars, gateVars, histVars>>

\* an exception leaves the try block: the vApp is as the failing call left it
Raise_InitIgnored(kind, step, exists, v) ==
    /\ err' = Error(kind, step)
    /\ atFailure' = [vappExists |-> exists, vms |-> v]
    /\ vappExists' = exists
    /\ vms' = v
    /\ pc' = IF step = "init_cluster" THEN "master_ip" ELSE "handler"
Raise(kind, step, exists, v) ==
    /\ err' = Error(kind, step)
    /\ atFailure' = [vappExists |-> exists, vms |-> v]
    /\ vappExists' = exists
    /\ vms' = v
    /\ pc' = "handler"

\* get_org, get_vdc
GetOrgVdc ==
    /\ pc = "get_org"
    /\ \/ /\ pc' = "create_vapp"
          /\ task' = Running("Creating cluster vApp")
          /\ UNCHANGED <<vappExists, vms, err, atFailure>>
       \/ /\ Raise("Other", "get_org", vappExists, vms)
          /\ UNCHANGED task
    /\ UNCHANGED <<req, cluster_id, tags, joinQueue, joinResults,
                   deleteIssued, rollbackErr>>
    /\ UNCHANGED notCreateVars

\* vdc.create_vapp: any exception becomes ClusterOperationError
CreateVapp ==
    /\ pc = "create_vapp"
    /\ \/ /\ vappExists' = TRUE
          /\ tags' = NoTags
          /\ pc' = "wait_vapp"
          /\ UNCHANGED <<vms, err, atFailure>>
       \/ /\ Raise("ClusterOperationError", "create_vapp", FALSE, vms)
          /\ UNCHANGED tags
    /\ UNCHANGED <<req, cluster_id, task, joinQueue, joinResults,
                   deleteIssued, rollbackErr>>
    /\ UNCHANGED notCreateVars

\* wait_for_status of the vApp creation task, then get_template (validated
\* before the dispatch against the same configuration)
WaitVapp ==
    /\ pc = "wait_vapp"
    /\ \/ /\ pc' = "tag"
          /\ UNCHANGED <<vappExists, vms, err, atFailure>>
       \/ \E left \in BOOLEAN : Raise("Other", "wait_vapp", left, vms)
    /\ UNCHANGED <<req, cluster_id, tags, task, joinQueue, joinResults,
                   deleteIssued, rollbackErr>>
    /\ UNCHANGED notCreateVars

\* vapp.set_multiple_metadata(tags) and its wait: one batch
SetTags ==
    /\ pc = "tag"
    /\ LET template == get_template(Some(req.template_name),
                                    Some(req.template_revision))
       IN \/ /\ tags' = [cluster_id |-> cluster_id,
                         template_name |-> template.name,
                         template_revision |-> ToStr(template.revision),
                         master_ip |-> ""]
             /\ task' = Running("Creating master node")
             /\ pc' = "master"
             /\ UNCHANGED <<vappExists, vms, err, atFailure>>
          \/ /\ Raise("Other", "set_multiple_metadata", vappExists, vms)
             /\ UNCHANGED <<tags, task>>
    /\ UNCHANGED <<req, cluster_id, joinQueue, joinResults, deleteIssued,
                   rollbackErr>>
    /\ UNCHANGED notCreateVars

\* add_nodes(num_nodes=1, node_type=MASTER)
AddMaster ==
    /\ pc = "master"
    /\ \E o \in AddNodesOutcomes(vms, MASTER, 1) :
         IF o.ok
         THEN /\ vms' = o.vms
              /\ task' = Running("Initializing cluster")
              /\ pc' = "init"
              /\ UNCHANGED <<vappExists, err, atFailure>>
         ELSE /\ Raise("MasterNodeCreationError", "add_master", vappExists,
                       o.vms)
              /\ UNCHANGED task
    /\ UNCHANGED <<req, cluster_id, tags, joinQueue, joinResults,
                   deleteIssued, rollbackErr>>
    /\ UNCHANGED notCreateVars

\* init_cluster: every failure becomes ClusterInitializationError
InitCluster ==
    /\ pc = "init"
    /\ \/ /\ vms' = {IF StartsWith(vm.name, MASTER)
                     THEN [vm EXCEPT !.joined = TRUE] ELSE vm : vm \in vms}
          /\ pc' = "master_ip"
          /\ UNCHANGED <<vappExists, err, atFailure>>
       \/ Raise("ClusterInitializationError", "init_cluster", vappExists, vms)
    /\ UNCHANGED <<req, cluster_id, tags, task, joinQueue, joinResults,
                   deleteIssued, rollbackErr>>
    /\ UNCHANGED notCreateVars

\* get_master_ip and vapp.set_metadata('cse.master.ip')
MasterIp ==
    /\ pc = "master_ip"
    /\ \/ /\ tags' = [tags EXCEPT !.master_ip = "ip"]
          /\ task' = Running("Creating node(s)")
          /\ pc' = "workers"
          /\ UNCHANGED <<vappExists, vms, err, atFailure>>
       \/ /\ \E k \in {"ScriptExecutionError", "Other"} :
                 Raise(k, "master_ip", vappExists, vms)
          /\ UNCHANGED <<tags, task>>
    /\ UNCHANGED <<req, cluster_id, joinQueue, joinResults, deleteIssued,
                   rollbackErr>>
    /\ UNCHANGED notCreateVars

\* add_nodes(num_nodes=num_workers, node_type=WORKER)
AddWorkers ==
    /\ pc = "workers"
    /\ \E o \in AddNodesOutcomes(vms, WORKER, req.num_workers) :
         IF o.ok
         THEN /\ vms' = o.vms
              /\ task' = Running("Adding node(s) to cluster")
              /\ pc' = "join_master"
              /\ UNCHANGED <<vappExists, err, atFailure>>
         ELSE /\ Raise("WorkerNodeCreationError", "add_workers", vappExists,
                       o.vms)
              /\ UNCHANGED task
    /\ UNCHANGED <<req, cluster_id, tags, joinQueue, joinResults,
                   deleteIssued, rollbackErr>>
    /\ UNCHANGED notCreateVars

\* the workers join_cluster runs the join script on: every worker of the
\* vApp, or those of them named in target_nodes when it is given
JoinTargets_All(v, target_nodes) == get_node_names(v, WORKER)
JoinTargets_DropLast(v, target_nodes) ==
    LET all == get_node_names(v, WORKER)
    IN  SubSeq(all, 1, Len(all) - 1)
JoinTargets(v, target_nodes) ==
    LET all == get_node_names(v, WORKER)
    IN  IF target_nodes = None
        THEN all
        ELSE SelectSeq(all, LAMBDA n : n \in target_nodes[1])

\* join_cluster, first half: the token script on the master.  Running it can
\* raise (connection, guest not ready, script file unreadable), it can exit
\* non-zero, and its output can hold fewer than the two words read from it
JoinMaster ==
    /\ pc = "join_master"
    /\ \/ \E code \in {0, 1} :
            /\ steps' = Append(steps, Step("token",
                                           get_node_names(vms, MASTER),
                                           ExitResult(code)))
            /\ IF get_script_execution_errors(<<code>>) # {}
               THEN /\ Raise("ScriptExecutionError", "join_master",
                             vappExists, vms)
                    /\ UNCHANGED <<joinQueue, joinResults>>
               ELSE \/ /\ joinQueue' = JoinTargets(vms, None)
                       /\ joinResults' = <<>>
                       /\ pc' = "join_workers"
                       /\ UNCHANGED <<vappExists, vms, err, atFailure>>
                    \/ /\ Raise("Other", "join_token_parse", vappExists,
                                vms)
                       /\ UNCHANGED <<joinQueue, joinResults>>
       \/ /\ Raise("Other", "join_master_exec", vappExists, vms)
          /\ steps' = Append(steps, Step("token",
                                         get_node_names(vms, MASTER),
                                         "Other"))
          /\ UNCHANGED <<joinQueue, joinResults>>
    /\ UNCHANGED <<req, cluster_id, tags, task, deleteIssued, rollbackErr>>
    /\ UNCHANGED <<nodeVars, nameVars, auxVars, planVars, gateVars, terminalWrites>>

\* join_cluster, execute_script_in_nodes on the workers: one node after the
\* other; an exit code is collected, an execution failure is raised at once
JoinWorker ==
    /\ pc = "join_workers"
    /\ joinQueue # <<>>
    /\ \/ \E code \in {0, 1} :
            /\ joinResults' = Append(joinResults, code)
            /\ joinQueue' = Tail(joinQueue)
            /\ vms' = {IF vm.name = Head(joinQueue) /\ code = 0
                       THEN [vm EXCEPT !.joined = TRUE] ELSE vm : vm \in vms}
            /\ steps' = Append(steps, Step("join", <<Head(joinQueue)>>,
                                           ExitResult(code)))
            /\ UNCHANGED <<pc, vappExists, err, atFailure>>
       \/ /\ Raise("Other", "join_worker_exec", vappExists, vms)
          /\ steps' = Append(steps, Step("join", <<Head(joinQueue)>>,
                                         "Other"))
          /\ UNCHANGED <<joinQueue, joinResults>>
    /\ UNCHANGED <<req, cluster_id, tags, task, deleteIssued, rollbackErr>>
    /\ UNCHANGED <<nodeVars, nameVars, auxVars, planVars, gateVars, terminalWrites>>

\* join_cluster, after the scripts: the collected results are examined
JoinFinish ==
    /\ pc = "join_workers"
    /\ joinQueue = <<>>
    /\ IF get_script_execution_errors(joinResults) # {}
       THEN /\ Raise("ScriptExecutionError", "join_workers", vappExists, vms)
            /\ UNCHANGED task
       ELSE IF \E i \in 1..Len(joinResults) : joinResults[i] # 0
       THEN /\ Raise("ClusterJoiningError", "join_workers", vappExists, vms)
            /\ UNCHANGED task
       ELSE /\ IF req.enable_nfs
               THEN /\ task' = Running("Creating NFS node")
                    /\ pc' = "nfs"
               ELSE /\ pc' = "success"
                    /\ UNCHANGED task
            /\ UNCHANGED <<vappExists, vms, err, atFailure>>
    /\ UNCHANGED <<req, cluster_id, tags, joinQueue, joinResults,
                   deleteIssued, rollbackErr>>
    /\ UNCHANGED notCreateVars

\* add_nodes(num_nodes=1, node_type=NFS)
AddNfs ==
    /\ pc = "nfs"
    /\ \E o \in AddNodesOutcomes(vms, NFS, 1) :
         IF o.ok
         THEN /\ vms' = o.vms
              /\ pc' = "success"
              /\ UNCHANGED <<vappExists, err, atFailure>>
         ELSE Raise("NFSNodeCreationError", "add_nfs", vappExists, o.vms)
    /\ UNCHANGED <<req, cluster_id, tags, task, joinQueue, joinResults,
                   deleteIssued, rollbackErr>>
    /\ UNCHANGED notCreateVars

\* _update_task(SUCCESS)
MarkSuccess ==
    /\ pc = "success"
    /\ task' = [status |-> "SUCCESS", msg |-> Error("", "Created cluster")]
    /\ pc' = "done"
    /\ UNCHANGED <<req, cluster_id, vappExists, tags, vms, err, joinQueue,
                   joinResults, atFailure, deleteIssued, rollbackErr>>
    /\ terminalWrites' = terminalWrites + 1
    /\ UNCHANGED <<nodeVars, nameVars, auxVars, planVars, gateVars, steps>>

\* the VDC the cluster is created in, and another one
OwnVdc == "vdc-a"
OtherVdc == "vdc-b"

\* the vApp of this invocation, when it exists, as the queries see it
OwnVapp ==
    IF vappExists
    THEN {[name |-> req.cluster_name, cluster_id |-> tags.cluster_id,
           vdc |-> OwnVdc]}
    ELSE {}

AllVapps == OwnVapp \cup others

\* the clusters of other invocations that can come into sight while this
\* one runs: one of the same name in another VDC, one of another name in
\* the same VDC; their cluster ids are their own
OtherVapps ==
    {[name |-> ThisCluster, cluster_id |-> "uuid-x", vdc |-> OtherVdc],
     [name |-> <<"Z">>, cluster_id |-> "uuid-y", vdc |-> OwnVdc]}

OtherIdle == others = {} /\ rbFound = None /\ rbDeleted = {}

notCreateOtherVars == <<nodeVars, nameVars, execVars, taskVars, lookupVars,
                        resizeVars, planVars, gateVars, histVars>>

\* get_all_clusters(cluster_name, cluster_id): the query filter keeps the
\* vApps whose cluster-id tag and whose name are the ones given
ClusterQuery_NameOnly(vapps, name, id) == {v \in vapps : v.name = name}
ClusterQuery(vapps, name, id) ==
    {v \in vapps : v.cluster_id = id /\ v.name = name}

\* vdc.delete_vapp(name): the vApps of the VDC that bear the name
VappsNamed(vapps, vdc, name) ==
    {v \in vapps : v.vdc = vdc /\ v.name = name}

\* the vApp of another cluster is created and tagged while the detached
\* execution of this one runs
OtherAppears ==
    /\ pc \notin {"idle", "rejected", "done", "escaped"}
    /\ req.op = "create_cluster"
    /\ others = {}
    /\ \E o \in OtherVapps : others' = {o}
    /\ UNCHANGED <<rbFound, rbDeleted>>
    /\ UNCHANGED createVars
    /\ UNCHANGED notCreateOtherVars

\* the except clauses: the first catches the recognized classes and rolls
\* back when asked to, the second catches everything else
Handler ==
    /\ pc = "handler"
    /\ IF IsRecognized(err.kind) /\ ShouldRollback(req.rollback)
       THEN \/ /\ task' = Running("Deleting cluster (rollback=True)")
               /\ pc' = "rollback_lookup"
            \/ UpdateTaskRaises
       ELSE /\ pc' = "mark_error"
            /\ UNCHANGED task
    /\ UNCHANGED <<req, cluster_id, vappExists, tags, vms, err, joinQueue,
                   joinResults, atFailure, deleteIssued, rollbackErr>>
    /\ UNCHANGED notCreateVars

\* rollback: get_cluster(cluster_name, cluster_id=cluster_id) finds the vApp
\* of that name tagged with that cluster id; not finding it, or a failing
\* query, is logged and ends the rollback
RollbackLookup ==
    /\ pc = "rollback_lookup"
    /\ LET found == ClusterQuery(AllVapps, req.cluster_name, cluster_id)
       IN  \/ /\ Cardinality(found) = 1
              /\ rbFound' = Some(CHOOSE v \in found : TRUE)
              /\ pc' = "rollback_delete"
              /\ UNCHANGED rollbackErr
           \/ /\ Cardinality(found) # 1
              /\ rollbackErr' = Error(IF found = {}
                                      THEN "ClusterNotFoundError"
                                      ELSE "CseDuplicateClusterError",
                                      "rollback_lookup")
              /\ pc' = "mark_error"
              /\ UNCHANGED rbFound
           \/ /\ rollbackErr' = Error("Other", "rollback_lookup")
              /\ pc' = "mark_error"
              /\ UNCHANGED rbFound
    /\ UNCHANGED <<req, cluster_id, vappExists, tags, vms, task, err,
                   joinQueue, joinResults, atFailure, deleteIssued>>
    /\ UNCHANGED <<others, rbDeleted>>
    /\ UNCHANGED notCreateOtherVars

\* rollback: _delete_vapp; its failure is logged by the caller
RollbackDelete ==
    /\ pc = "rollback_delete"
    /\ deleteIssued' = TRUE
    /\ LET doomed == VappsNamed(AllVapps, rbFound[1].vdc, req.cluster_name)
       IN  \/ /\ doomed # {}
              /\ rbDeleted' = rbDeleted \cup doomed
              /\ others' = others \ doomed
              /\ IF OwnVapp \cap doomed # {}
                 THEN /\ vappExists' = FALSE
                      /\ vms' = {}
                      /\ tags' = NoTags
                 ELSE UNCHANGED <<vappExists, vms, tags>>
              /\ UNCHANGED rollbackErr
           \/ /\ rollbackErr' = Error("Other", "delete_vapp")
              /\ UNCHANGED <<vappExists, vms, tags, others, rbDeleted>>
    /\ pc' = "mark_error"
    /\ UNCHANGED <<req, cluster_id, task, err, joinQueue, joinResults,
                   atFailure>>
    /\ UNCHANGED rbFound
    /\ UNCHANGED notCreateOtherVars

\* _update_task(ERROR, error_message=str(err))
MarkError ==
    /\ pc = "mark_error"
    /\ \/ /\ task' = [status |-> "ERROR",
                       msg |-> ErrorMessage(err, rollbackErr)]
          /\ terminalWrites' = terminalWrites + 1
          /\ pc' = "done"
       \/ /\ UpdateTaskRaises
          /\ UNCHANGED terminalWrites
    /\ UNCHANGED <<req, cluster_id, vappExists, tags, vms, err, joinQueue,
                   joinResults, atFailure, deleteIssued, rollbackErr>>
    /\ UNCHANGED <<nodeVars, nameVars, auxVars, planVars, gateVars, steps>>

CreateNext ==
    \/ CreateCluster
    \/ GetOrgVdc
    \/ CreateVapp
    \/ WaitVapp
    \/ SetTags
    \/ AddMaster
    \/ InitCluster
    \/ MasterIp
    \/ AddWorkers
    \/ JoinMaster
    \/ JoinWorker
    \/ JoinFinish
    \/ AddNfs
    \/ MarkSuccess
    \/ Handler
    \/ RollbackLookup
    \/ RollbackDelete
    \/ MarkError
    \/ OtherAppears


(***************************************************************************)
(* The cluster-name check of create_cluster on its own.                    *)
(***************************************************************************)
\* names of every shape up to MaxShort characters, alone or after a run of
\* letters that brings the length around MaxNameLen
MaxShort == 3

ShortNames == UNION {[1..n -> Chars] : n \in 0..MaxShort}
PadLens == {0} \cup ((MaxNameLen - MaxShort)..MaxNameLen)
Pad(k) == [i \in 1..k |-> "a"]
NameInputs == {Pad(k) \o s : k \in PadLens, s \in ShortNames}

NameIdle == vname = <<>> /\ vresult = "idle"
NameInit == vname \in NameInputs /\ vresult = "pending"

\* `if not is_valid_cluster_name(cluster_name): raise CseServerError`
ValidateName ==
    /\ vresult = "pending"
    /\ vresult' = IF NameRaises(vname) THEN "raised"
                  ELSE IF is_valid_cluster_name(vname) THEN "accepted"
                  ELSE "rejected"
    /\ UNCHANGED <<vname, createVars, nodeVars, planVars, gateVars, histVars,
                   auxVars>>

(***************************************************************************)
(* get_cluster_upgrade_plan.                                               *)
(***************************************************************************)
\* longest template list of a configuration
MaxTemplates == 2

PlanNames == {"A", "B"}
PlanRevisions == {1, 2, 10}
PlanTemplateUniverse ==
    {[name |-> n, revision |-> r, upgrade_from |-> u] :
        n \in PlanNames, r \in PlanRevisions, u \in SUBSET PlanNames}
\* the revision tag of a cluster is a string; a cluster of an old version has
\* none, and its record holds ''
PlanClusterRevisions == {<<>>, <<1>>, <<2>>, <<1, 0>>}

\* the candidate is left out: same name, and a revision not above the
\* cluster's
PlanSkips_Strict(t, src_name, src_rev) ==
    t.name = src_name /\ t.revision < ParseInt(src_rev)
PlanSkips(t, src_name, src_rev) ==
    t.name = src_name /\ t.revision <= ParseInt(src_rev)

\* the loop of get_cluster_upgrade_plan over the templates ts; int(src_rev)
\* is evaluated, and can raise, only for a candidate of the cluster's name
RECURSIVE UpgradeLoop(_, _, _)
UpgradeLoop(ts, src_name, src_rev) ==
    IF ts = <<>>
    THEN [raised |-> FALSE, upgrades |-> <<>>]
    ELSE LET t == Head(ts)
             rest == UpgradeLoop(Tail(ts), src_name, src_rev)
         IN  IF src_name \notin t.upgrade_from
             THEN rest
             ELSE IF t.name = src_name /\ IntRaises(src_rev)
             THEN [raised |-> TRUE, upgrades |-> <<>>]
             ELSE IF PlanSkips(t, src_name, src_rev)
             THEN rest
             ELSE IF rest.raised
             THEN rest
             ELSE [raised |-> FALSE, upgrades |-> <<t>> \o rest.upgrades]

PlanPending == [done |-> FALSE, raised |-> FALSE, upgrades |-> <<>>]

PlanIdle ==
    /\ planTemplates = <<>>
    /\ planCluster = [template_name |-> "", template_revision |-> <<>>]
    /\ planResult = PlanPending

PlanInit ==
    /\ planTemplates \in UNION {[1..n -> PlanTemplateUniverse] :
                                    n \in 0..MaxTemplates}
    /\ planCluster \in [template_name : PlanNames,
                        template_revision : PlanClusterRevisions]
    /\ planResult = PlanPending

GetClusterUpgradePlan ==
    /\ ~planResult.done
    /\ LET r == UpgradeLoop(planTemplates, planCluster.template_name,
                            planCluster.template_revision)
       IN  planResult' = [done |-> TRUE, raised |-> r.raised,
                          upgrades |-> r.upgrades]
    /\ UNCHANGED <<planTemplates, planCluster, createVars, nodeVars,
                   nameVars, auxVars, gateVars, histVars>>

(***************************************************************************)
(* The upgrade decision logic of _upgrade_cluster_async.                   *)
(***************************************************************************)
\* semantic versions <<major, minor, patch>>
K8sVersions == {<<1, 14, 0>>, <<1, 14, 2>>, <<1, 15, 0>>, <<2, 0, 0>>}
CniVersions == {<<0, 6, 0>>, <<0, 7, 0>>, <<1, 0, 0>>}
\* docker versions are compared as strings: a version is the sequence of its
\* characters, each kept as its rank in code-point order
DockerVersions == {<<1, 8>>, <<1, 9>>, <<1, 9, 0>>, <<9>>}

VersionSets == [docker : DockerVersions, k8s : K8sVersions,
                cni : CniVersions]

\* semver.Version.__lt__
SemverLess(a, b) ==
    \/ a[1] < b[1]
    \/ a[1] = b[1] /\ a[2] < b[2]
    \/ a[1] = b[1] /\ a[2] = b[2] /\ a[3] < b[3]

\* str.__lt__
RECURSIVE StrLess(_, _)
StrLess(a, b) ==
    IF b = <<>> THEN FALSE
    ELSE IF a = <<>> THEN TRUE
    ELSE IF Head(a) # Head(b) THEN Head(a) < Head(b)
    ELSE StrLess(Tail(a), Tail(b))

\* upgrade_docker = t_docker > c_docker
UpgradeDocker(c, t) == StrLess(c.docker, t.docker)

\* upgrade_k8s = t_k8s >= c_k8s
UpgradeK8s(c, t) == ~SemverLess(t.k8s, c.k8s)

\* upgrade_cni = t_cni > c_cni or t_k8s.major > c_k8s.major
\*               or t_k8s.minor > c_k8s.minor
UpgradeCni_CniOnly(c, t) == SemverLess(c.cni, t.cni)
UpgradeCni_Geq(c, t) ==
    \/ ~SemverLess(t.cni, c.cni)
    \/ t.k8s[1] > c.k8s[1]
    \/ t.k8s[2] > c.k8s[2]
UpgradeCni(c, t) ==
    \/ SemverLess(c.cni, t.cni)
    \/ t.k8s[1] > c.k8s[1]
    \/ t.k8s[2] > c.k8s[2]

NoFlags == [docker |-> FALSE, k8s |-> FALSE, cni |-> FALSE]
NoVersions == [docker |-> <<>>, k8s |-> <<0, 0, 0>>, cni |-> <<0, 0, 0>>]

GateIdle ==
    /\ gCluster = NoVersions
    /\ gTemplate = NoVersions
    /\ gFlags = NoFlags
    /\ gPhase = "idle"

GateInit ==
    /\ gCluster \in VersionSets
    /\ gTemplate \in VersionSets
    /\ gFlags = NoFlags
    /\ gPhase = "start"

\* the three flags are computed from the cluster record and the template
Decide ==
    /\ gPhase \in {"start", "upgraded"}
    /\ gFlags' = [docker |-> UpgradeDocker(gCluster, gTemplate),
                  k8s |-> UpgradeK8s(gCluster, gTemplate),
                  cni |-> UpgradeCni(gCluster, gTemplate)]
    /\ gPhase' = IF gPhase = "start" THEN "decided" ELSE "redecided"
    /\ UNCHANGED <<gCluster, gTemplate, createVars, nodeVars, nameVars, auxVars,
                   planVars, histVars>>

\* the end of a successful upgrade: the version tags of the vApp are
\* rewritten with the template's values
WriteUpgradeMetadata ==
    /\ gPhase = "decided"
    /\ gCluster' = gTemplate
    /\ gPhase' = "upgraded"
    /\ UNCHANGED <<gTemplate, gFlags, createVars, nodeVars, nameVars, auxVars,
                   planVars, histVars>>


(***************************************************************************)
(* execute_script_in_nodes and _wait_until_ready_to_exec: one call, one    *)
(* action per awaited call of the guest operations.                        *)
(***************************************************************************)
\* longest node_names of a call
MaxExecNodes == 2
\* the default of the tries parameter of _wait_until_ready_to_exec
tries == 30

ExecTargets == {NodeName(MASTER, 1), NodeName(WORKER, 1)}
ExecInputs ==
    UNION {[1..n -> ExecTargets] : n \in 0..MaxExecNodes}

\* no call in the broker passes wait: it keeps its default, True
WaitArgs == {TRUE}

mainVars == <<createVars, nodeVars, vname, vresult, planVars, gateVars,
              histVars>>
notExecVars == <<mainVars, taskVars, otherVars, lookupVars, resizeVars>>

ExecIdle ==
    /\ xNodes = <<>>
    /\ xCheck = FALSE
    /\ xWait = TRUE
    /\ xPhase = "idle"
    /\ xAt = 0
    /\ xProbes = 0
    /\ xLast = -1
    /\ xResults = <<>>
    /\ xRunning = {}
    /\ xStarted = {}
    /\ xCause = "none"

\* the call, at the head of its loop over node_names
ExecInit ==
    /\ xNodes \in ExecInputs
    /\ xCheck \in BOOLEAN
    /\ xWait \in WaitArgs
    /\ xPhase = "node"
    /\ xAt = 1
    /\ xProbes = 0
    /\ xLast = -1
    /\ xResults = <<>>
    /\ xRunning = {}
    /\ xStarted = {}
    /\ xCause = "none"

\* an exception leaves execute_script_in_nodes: nothing is returned
ExecRaise(cause) ==
    /\ xPhase' = "raised"
    /\ xCause' = cause

\* `for _ in range(tries)`: another probe is to be made
MoreTries(n) == n < tries

\* `if result[0] == 0`: the probe found the guest ready
ProbeReady_Any(code) == TRUE
ProbeReady(code) == code = 0

\* wait_for_completion of the guest call: True with wait, False without
AwaitsCompletion_Never(w) == FALSE
AwaitsCompletion(w) == w

\* `return all_results`, the loop being over
ExecReturn ==
    /\ xPhase = "node"
    /\ xAt > Len(xNodes)
    /\ xPhase' = "returned"
    /\ UNCHANGED <<xNodes, xCheck, xWait, xAt, xProbes, xLast, xResults,
                   xRunning, xStarted, xCause>>
    /\ UNCHANGED notExecVars

\* the head of an iteration: get_vsphere, connect, get_vm_by_moid and
\* get_admin_password, then `if check_tools:`
ExecConnect ==
    /\ xPhase = "node"
    /\ xAt <= Len(xNodes)
    /\ \/ /\ xPhase' = IF xCheck THEN "tools" ELSE "exec"
          /\ UNCHANGED xCause
       \/ ExecRaise("connect")
    /\ xProbes' = 0
    /\ xLast' = -1
    /\ UNCHANGED <<xNodes, xCheck, xWait, xAt, xResults, xRunning, xStarted>>
    /\ UNCHANGED notExecVars

\* vs.wait_until_tools_ready
ExecWaitTools ==
    /\ xPhase = "tools"
    /\ \/ /\ xPhase' = "poll"
          /\ UNCHANGED xCause
       \/ ExecRaise("tools")
    /\ UNCHANGED <<xNodes, xCheck, xWait, xAt, xProbes, xLast, xResults,
                   xRunning, xStarted>>
    /\ UNCHANGED notExecVars

\* _wait_until_ready_to_exec: one turn of its loop, or what follows the loop
ExecProbe ==
    /\ xPhase = "poll"
    /\ IF MoreTries(xProbes)
       THEN \/ \E code \in {0, 1} :
                 /\ xProbes' = xProbes + 1
                 /\ xLast' = code
                 /\ xPhase' = IF ProbeReady(code) THEN "exec" ELSE "poll"
                 /\ UNCHANGED xCause
            \/ /\ ExecRaise("probe")
               /\ UNCHANGED <<xProbes, xLast>>
       ELSE /\ ExecRaise("not_ready")
            /\ UNCHANGED <<xProbes, xLast>>
    /\ UNCHANGED <<xNodes, xCheck, xWait, xAt, xResults, xRunning, xStarted>>
    /\ UNCHANGED notExecVars

\* the script is handed to the guest of the node: execute_script_in_guest
\* with wait, which returns when the script has ended, or
\* execute_program_in_guest without, which returns at once
ExecStart ==
    /\ xPhase = "exec"
    /\ \/ /\ xStarted' = xStarted \cup {xAt}
          /\ xRunning' = xRunning \cup {xAt}
          /\ IF AwaitsCompletion(xWait)
             THEN /\ xPhase' = "running"
                  /\ UNCHANGED <<xAt, xResults>>
             ELSE /\ xResults' = Append(xResults,
                                        [node |-> xNodes[xAt], code |-> 0])
                  /\ xAt' = xAt + 1
                  /\ xPhase' = "node"
          /\ UNCHANGED xCause
       \/ /\ ExecRaise("exec")
          /\ UNCHANGED <<xAt, xResults, xRunning, xStarted>>
    /\ UNCHANGED <<xNodes, xCheck, xWait, xProbes, xLast>>
    /\ UNCHANGED notExecVars

\* a script ends in its guest.  The call that waits for it appends the
\* result, whatever the exit code, and goes on to the next node
ExecEnd ==
    /\ \E i \in xRunning, code \in {0, 1} :
         /\ xRunning' = xRunning \ {i}
         /\ IF xPhase = "running" /\ i = xAt
            THEN \/ /\ xResults' = Append(xResults,
                                          [node |-> xNodes[i], code |-> code])
                    /\ xAt' = xAt + 1
                    /\ xPhase' = "node"
                    /\ UNCHANGED xCause
                 \/ /\ ExecRaise("output")
                    /\ UNCHANGED <<xAt, xResults>>
            ELSE UNCHANGED <<xAt, xResults, xPhase, xCause>>
    /\ UNCHANGED <<xNodes, xCheck, xWait, xProbes, xLast, xStarted>>
    /\ UNCHANGED notExecVars

ExecNext ==
    \/ ExecReturn
    \/ ExecConnect
    \/ ExecWaitTools
    \/ ExecProbe
    \/ ExecStart
    \/ ExecEnd

(***************************************************************************)
(* _update_task across one broker invocation: the broker function makes    *)
(* the first update, starts the detached execution, which makes the later  *)
(* updates, and returns the href of self.task_resource.                    *)
(***************************************************************************)
\* most updates a detached execution makes (create_cluster with NFS: seven)
MaxTaskUpdates == 7

notTaskVars == <<mainVars, execVars, otherVars, lookupVars, resizeVars>>

TaskIdle ==
    /\ tObject = FALSE
    /\ tResource = None
    /\ tTasks = 0
    /\ tLog = <<>>
    /\ tSync = "idle"
    /\ tAsync = "off"
    /\ tLeft = 0
    /\ tReturned = None

\* a broker object as __init__ leaves it, the request validated
TaskInit ==
    /\ tObject = FALSE
    /\ tResource = None
    /\ tTasks = 0
    /\ tLog = <<>>
    /\ tSync = "update"
    /\ tAsync = "off"
    /\ tLeft \in 1..MaxTaskUpdates
    /\ tReturned = None

\* `task_href = self.task_resource.get('href')` when there is a resource
TaskHrefArg_None(resource) == None
TaskHrefArg(resource) == resource

\* Task.update: without task_href a task is created, with it that task is
\* updated; the resource of the task is returned
UpdatedHref(arg, tasks) == IF arg = None THEN tasks + 1 ELSE arg[1]

\* _update_task(status), the calls of get_org and get_user having returned
UpdateTask(status) ==
    LET href == UpdatedHref(TaskHrefArg(tResource), tTasks)
    IN  /\ tObject' = TRUE
        /\ tTasks' = IF href > tTasks THEN href ELSE tTasks
        /\ tLog' = Append(tLog, [href |-> href, status |-> status])
        /\ tResource' = Some(href)

\* get_org, get_user or Task.update raises: self.task is set, nothing else
UpdateTaskFails ==
    /\ tObject' = TRUE
    /\ UNCHANGED <<tResource, tTasks, tLog>>

\* the broker function: `self._update_task(TaskStatus.RUNNING, message=msg)`
TaskSyncUpdate ==
    /\ tSync = "update"
    /\ \/ /\ UpdateTask("RUNNING")
          /\ tSync' = "start"
       \/ /\ UpdateTaskFails
          /\ tSync' = "raised"
    /\ UNCHANGED <<tAsync, tLeft, tReturned>>
    /\ UNCHANGED notTaskVars

\* the call of the @run_async method starts the thread and returns
TaskStart ==
    /\ tSync = "start"
    /\ tAsync' = "run"
    /\ tSync' = "return"
    /\ UNCHANGED <<tObject, tResource, tTasks, tLog, tLeft, tReturned>>
    /\ UNCHANGED notTaskVars

\* `'task_href': self.task_resource.get('href')`
TaskReturn ==
    /\ tSync = "return"
    /\ tReturned' = tResource
    /\ tSync' = "returned"
    /\ UNCHANGED <<tObject, tResource, tTasks, tLog, tAsync, tLeft>>
    /\ UNCHANGED notTaskVars

\* the detached execution makes its next update: a progress message, or,
\* as its last, SUCCESS or ERROR
TaskAsyncUpdate ==
    /\ tAsync = "run"
    /\ \/ \E status \in IF tLeft = 1 THEN {"SUCCESS", "ERROR"}
                       ELSE {"RUNNING", "ERROR"} :
            /\ UpdateTask(status)
            /\ tLeft' = IF status = "RUNNING" THEN tLeft - 1 ELSE 0
            /\ tAsync' = IF status = "RUNNING" THEN "run" ELSE "ended"
       \/ /\ UpdateTaskFails
          /\ tLeft' = 0
          /\ tAsync' = "ended"
    /\ UNCHANGED <<tSync, tReturned>>
    /\ UNCHANGED notTaskVars

TaskNext ==
    \/ TaskSyncUpdate
    \/ TaskStart
    \/ TaskReturn
    \/ TaskAsyncUpdate

(***************************************************************************)
(* get_all_clusters: the two metadata queries and the dictionary built     *)
(* from them, with a create_cluster that tags its vApp in the meantime.    *)
(* The queries are taken to answer.                                        *)
(***************************************************************************)
\* the metadata keys of the model, named by the cluster key they map to;
\* "template" is the key that bore the template name before 2.5.0
MappedKeys ==
    {"cluster_id", "template_name", "kubernetes_version", "docker_version"}
BackwardKey == "template"

\* the metadata each of the two queries asks for
Q1Fields == {"cluster_id", "template_name", BackwardKey}
Q2Fields_NoK8sVersion == {"docker_version"}
Q2Fields == {"docker_version", "kubernetes_version"}

\* get_k8s_version_from_template_name
DerivedK8s(template_name) ==
    CASE template_name = "ubuntu-16.04_k8-1.15_weave-2.5.2" -> "1.15"
      [] template_name = "photon-v2_k8-1.14_weave-2.5.2" -> "1.14"
      [] OTHER -> "Unknown"

\* the tags create_cluster writes in one call of set_multiple_metadata
NewTags ==
    [cluster_id |-> "id-4",
     template_name |-> "ubuntu-16.04_k8-1.15_weave-2.5.2",
     kubernetes_version |-> "1.15.5", docker_version |-> "19.03"]

\* a cluster of this version, whose Kubernetes was upgraded since; a
\* cluster from before 2.6, without version tags; one from before 2.5, its
\* template under the old key; and a vApp create_cluster has yet to tag
TaggedVapps ==
    {[id |-> 1, name |-> "c1",
      meta |-> [cluster_id |-> "id-1",
                template_name |-> "photon-v2_k8-1.14_weave-2.5.2",
                kubernetes_version |-> "1.15.5",
                docker_version |-> "19.03"]],
     [id |-> 2, name |-> "c2",
      meta |-> [cluster_id |-> "id-2",
                template_name |-> "ubuntu-16.04_k8-1.15_weave-2.5.2"]],
     [id |-> 3, name |-> "c3",
      meta |-> [cluster_id |-> "id-3", template |-> "photon-v1"]]}
UntaggedVapp == [id |-> 4, name |-> "c4", meta |-> [vapp |-> "new"]]

LookupNames == {None, Some("c1"), Some("c4")}

LookupIdle ==
    /\ lkName = None
    /\ lkVapps = {}
    /\ lkPhase = "idle"
    /\ lkClusters = <<>>
    /\ lkTagged = {}

LookupInit ==
    /\ lkName \in LookupNames
    /\ lkVapps \in {S \cup P : S \in SUBSET TaggedVapps,
                              P \in {{}, {UntaggedVapp}}}
    /\ lkPhase = "q1"
    /\ lkClusters = <<>>
    /\ lkTagged = {}

notLookupVars == <<mainVars, execVars, taskVars, otherVars, resizeVars>>

\* the records a query returns: the vApps with a cluster-id tag, of the
\* name given when one is given
QueryRecords(vapps, name) ==
    {v \in vapps : /\ "cluster_id" \in DOMAIN v.meta
                   /\ name # None => v.name = name[1]}

\* the record of a vApp before its metadata is read
BlankRecord(v) ==
    [name |-> v.name, cluster_id |-> "", template_name |-> "",
     kubernetes_version |-> "", docker_version |-> ""]

\* the loop over record.Metadata.MetadataEntry, the entries being those of
\* the fields the query asked for
ApplyEntries(rec, meta, fields) ==
    LET got == fields \cap DOMAIN meta
        r == [k \in DOMAIN rec |->
                 IF k \in got \cap MappedKeys THEN meta[k] ELSE rec[k]]
    IN  IF BackwardKey \in got /\ r.template_name = ""
        THEN [r EXCEPT !.template_name = meta[BackwardKey]]
        ELSE r

\* the first loop: a record for every vApp of the first query, the
\* Kubernetes version derived from the template name while it is ''
FirstRecord(v) ==
    LET r == ApplyEntries(BlankRecord(v), v.meta, Q1Fields)
    IN  IF r.kubernetes_version = ""
        THEN [r EXCEPT !.kubernetes_version = DerivedK8s(r.template_name)]
        ELSE r

VappOf(vapps, id) == CHOOSE v \in vapps : v.id = id

LookupFirst ==
    /\ lkPhase = "q1"
    /\ LET recs == QueryRecords(lkVapps, lkName)
       IN  lkClusters' = [id \in {v.id : v \in recs} |->
                             FirstRecord(VappOf(recs, id))]
    /\ lkPhase' = "q2"
    /\ UNCHANGED <<lkName, lkVapps, lkTagged>>
    /\ UNCHANGED notLookupVars

\* the second loop: `clusters[vapp_id][...] = ...` for every entry of every
\* record of the second query; a vApp id that is no key of the dictionary
\* raises KeyError
LookupSecond ==
    /\ lkPhase = "q2"
    /\ LET recs == QueryRecords(lkVapps, lkName)
           unknown == {v \in recs :
                         /\ v.id \notin DOMAIN lkClusters
                         /\ Q2Fields \cap DOMAIN v.meta \cap MappedKeys # {}}
       IN  IF unknown # {}
           THEN /\ lkPhase' = "raised"
                /\ UNCHANGED lkClusters
           ELSE /\ lkPhase' = "returned"
                /\ lkClusters' =
                     [id \in DOMAIN lkClusters |->
                        IF \E v \in recs : v.id = id
                        THEN ApplyEntries(lkClusters[id],
                                          VappOf(recs, id).meta, Q2Fields)
                        ELSE lkClusters[id]]
    /\ UNCHANGED <<lkName, lkVapps, lkTagged>>
    /\ UNCHANGED notLookupVars

\* _create_cluster_async tags the vApp it has created
LookupTagNew ==
    /\ lkPhase \in {"q1", "q2"}
    /\ \E v \in lkVapps :
         /\ "cluster_id" \notin DOMAIN v.meta
         /\ lkVapps' = (lkVapps \ {v}) \cup {[v EXCEPT !.meta = NewTags]}
         /\ lkTagged' = lkTagged \cup {v.id}
    /\ UNCHANGED <<lkName, lkPhase, lkClusters>>
    /\ UNCHANGED notLookupVars

LookupNext ==
    \/ LookupFirst
    \/ LookupSecond
    \/ LookupTagNew

(***************************************************************************)
(* Two invocations of resize_cluster on one cluster, each with its check   *)
(* and its detached execution.  The VMs are counted only.                  *)
(***************************************************************************)
Resizers == {1, 2}

ResizeIdle ==
    /\ rzWorkers = 0
    /\ rzWanted = 0
    /\ rzPc = [i \in Resizers |-> "idle"]
    /\ rzDelta = [i \in Resizers |-> 0]
    /\ rzStatus = [i \in Resizers |-> "none"]

ResizeInit ==
    /\ rzWorkers \in 0..MaxWorkers
    /\ rzWanted \in 0..(MaxWorkers + 1)
    /\ rzPc = [i \in Resizers |-> "call"]
    /\ rzDelta = [i \in Resizers |-> 0]
    /\ rzStatus = [i \in Resizers |-> "none"]

notResizeVars == <<mainVars, execVars, taskVars, otherVars, lookupVars>>

\* none of the models that stand on their own has begun
AuxIdle ==
    ExecIdle /\ TaskIdle /\ OtherIdle /\ LookupIdle /\ ResizeIdle

(***************************************************************************)
(* Node operations on an existing cluster: resize_cluster, create_nodes,   *)
(* delete_nodes and their detached executions.                             *)
(***************************************************************************)
\* longest node_names_list of a delete_nodes request
MaxTargets == 2

pureVars == <<nameVars, auxVars, planVars, gateVars>>
\* what no node operation changes, and what only the terminal task updates
\* and the in-guest steps of them change
nodeFrameBut == <<cluster_id, vappExists, tags, atFailure, deleteIssued,
                  vms0, pureVars>>
nodeFrame == <<cluster_id, vappExists, tags, atFailure, deleteIssued, vms0,
               pureVars, histVars>>

NoAsk == [op |-> "none", num |-> 0, names |-> <<>>, cluster_name |-> <<>>]

\* the cluster names node operations are asked with: the cluster's, and one
\* no visible cluster bears
NodeReqNames == {ThisCluster, <<"7">>}

ExistingVm(name, joined) ==
    [name |-> name, on |-> TRUE, joined |-> joined, drained |-> FALSE]

\* a cluster as create_cluster leaves it: a master, c workers, and an NFS
\* node or none
ClusterVms(c, nfs) ==
    {ExistingVm(NodeName(MASTER, 1), TRUE)}
    \cup {ExistingVm(NodeName(WORKER, i), TRUE) : i \in 1..c}
    \cup (IF nfs THEN {ExistingVm(NodeName(NFS, 1), FALSE)} ELSE {})

NodeInit ==
    /\ pc = "idle"
    /\ req = NoReq
    /\ cluster_id = "uuid-a"
    /\ vappExists = TRUE
    /\ tags = [cluster_id |-> "uuid-a",
               template_name |-> default_template_name,
               template_revision |-> ToStr(default_template_revision),
               master_ip |-> "ip"]
    /\ vms \in {ClusterVms(c, nfs) : c \in 0..MaxWorkers, nfs \in BOOLEAN}
    /\ task = NoTask
    /\ err = NoErr
    /\ joinQueue = <<>>
    /\ joinResults = <<>>
    /\ atFailure = [vappExists |-> FALSE, vms |-> {}]
    /\ deleteIssued = FALSE
    /\ rollbackErr = NoErr
    /\ targets = <<>>
    /\ asked = NoAsk
    /\ vms0 = vms

NodeIdle ==
    /\ targets = <<>>
    /\ asked = NoAsk
    /\ vms0 = {}

\* len(cluster_info['nodes']): get_cluster_info files a VM under 'nodes'
\* when its name has the worker prefix (and not the master prefix)
LiveWorkers_Masters(v) ==
    Cardinality({vm \in v : StartsWith(vm.name, MASTER)})
LiveWorkers(v) ==
    Cardinality({vm \in v : /\ ~StartsWith(vm.name, MASTER)
                            /\ StartsWith(vm.name, WORKER)})

\* the checks of resize_cluster on the wanted and the live worker count
ResizeRejects(num_workers, wanted) ==
    \/ wanted < 1
    \/ num_workers > wanted
    \/ num_workers = wanted

\* the worker count resize_cluster hands to create_nodes
ResizeDelta_Wanted(wanted, num_workers) == wanted
ResizeDelta(wanted, num_workers) == wanted - num_workers

\* the checks of create_nodes: the template, and num_workers < 1
CreateNodesRejects_Never(num) == FALSE
CreateNodesRejects(num) ==
    \/ GetTemplateRaises(None, None)
    \/ num < 1

NodesRequest(num, nfs, rb) ==
    [op |-> "create_nodes", cluster_name |-> ThisCluster,
     num_workers |-> num, enable_nfs |-> nfs, rollback |-> rb,
     template_name |-> get_template(None, None).name,
     template_revision |-> get_template(None, None).revision]

\* resize_cluster, with the create_nodes call it ends in, up to the dispatch
\* of _create_nodes_async
ResizeCluster ==
    /\ pc = "idle"
    /\ \E wanted \in 0..(MaxWorkers + 1), rb \in BOOLEAN, cn \in NodeReqNames :
         LET num_workers == LiveWorkers(vms)
         IN  /\ asked' = [op |-> "resize_cluster", num |-> wanted,
                          names |-> <<>>, cluster_name |-> cn]
             /\ IF \/ get_cluster(cn) # "found"
                   \/ ResizeRejects(num_workers, wanted)
                   \/ CreateNodesRejects(ResizeDelta(wanted, num_workers))
                THEN /\ pc' = "rejected"
                     /\ UNCHANGED <<req, task>>
                ELSE /\ req' = NodesRequest(ResizeDelta(wanted, num_workers),
                                             FALSE, rb)
                     /\ task' = Running("Creating node(s)")
                     /\ pc' = "cn_add"
    /\ UNCHANGED <<vms, err, joinQueue, joinResults, rollbackErr, targets>>
    /\ UNCHANGED nodeFrame

\* create_nodes up to the dispatch of _create_nodes_async
CreateNodes ==
    /\ pc = "idle"
    /\ \E n \in 0..MaxWorkers, nfs \in BOOLEAN, rb \in BOOLEAN,
          cn \in NodeReqNames :
         /\ asked' = [op |-> "create_nodes", num |-> n, names |-> <<>>,
                      cluster_name |-> cn]
         /\ IF CreateNodesRejects(n) \/ get_cluster(cn) # "found"
            THEN /\ pc' = "rejected"
                 /\ UNCHANGED <<req, task>>
            ELSE /\ req' = NodesRequest(n, nfs, rb)
                 /\ task' = Running("Creating node(s)")
                 /\ pc' = "cn_add"
    /\ UNCHANGED <<vms, err, joinQueue, joinResults, rollbackErr, targets>>
    /\ UNCHANGED nodeFrame

\* _create_nodes_async after add_nodes: an NFS node is reported at once,
\* worker nodes are joined to the cluster first
JoinsAfterAdd_Always(node_type) == TRUE
JoinsAfterAdd(node_type) == node_type # NFS

\* _create_nodes_async: the lookups it starts with, then add_nodes
CnAdd ==
    /\ pc = "cn_add"
    /\ \/ /\ err' = Error("Other", "cn_lookup")
          /\ pc' = "cn_handler"
          /\ UNCHANGED <<vms, targets, task>>
       \/ \E o \in AddNodesOutcomes(vms,
                                    IF req.enable_nfs THEN NFS ELSE WORKER,
                                    req.num_workers) :
            /\ vms' = o.vms
            /\ targets' = o.node_names
            /\ IF ~o.ok
               THEN /\ err' = Error("NodeCreationError", "add_nodes")
                    /\ pc' = "cn_handler"
                    /\ UNCHANGED task
               ELSE IF ~JoinsAfterAdd(IF req.enable_nfs THEN NFS ELSE WORKER)
               THEN /\ pc' = "cn_success"
                    /\ UNCHANGED <<err, task>>
               ELSE /\ task' = Running("Adding node(s) to cluster")
                    /\ pc' = "cn_join_master"
                    /\ UNCHANGED err
    /\ UNCHANGED <<req, joinQueue, joinResults, rollbackErr, asked>>
    /\ UNCHANGED nodeFrame

Range(q) == {q[i] : i \in 1..Len(q)}

\* join_cluster(target_nodes), first half
CnJoinMaster ==
    /\ pc = "cn_join_master"
    /\ \/ \E code \in {0, 1} :
            /\ steps' = Append(steps, Step("token",
                                           get_node_names(vms, MASTER),
                                           ExitResult(code)))
            /\ IF get_script_execution_errors(<<code>>) # {}
               THEN /\ err' = Error("ScriptExecutionError", "join_master")
                    /\ pc' = "cn_handler"
                    /\ UNCHANGED <<joinQueue, joinResults>>
               ELSE \/ /\ joinQueue' = JoinTargets(vms,
                                                   Some(Range(targets)))
                       /\ joinResults' = <<>>
                       /\ pc' = "cn_join_workers"
                       /\ UNCHANGED err
                    \/ /\ err' = Error("Other", "join_token_parse")
                       /\ pc' = "cn_handler"
                       /\ UNCHANGED <<joinQueue, joinResults>>
       \/ /\ err' = Error("Other", "join_master_exec")
          /\ steps' = Append(steps, Step("token",
                                         get_node_names(vms, MASTER),
                                         "Other"))
          /\ pc' = "cn_handler"
          /\ UNCHANGED <<joinQueue, joinResults>>
    /\ UNCHANGED <<req, vms, task, rollbackErr, targets, asked>>
    /\ UNCHANGED <<nodeFrameBut, terminalWrites>>

\* join_cluster(target_nodes), the join script on one worker after the other
CnJoinWorker ==
    /\ pc = "cn_join_workers"
    /\ joinQueue # <<>>
    /\ \/ \E code \in {0, 1} :
            /\ joinResults' = Append(joinResults, code)
            /\ joinQueue' = Tail(joinQueue)
            /\ vms' = {IF vm.name = Head(joinQueue) /\ code = 0
                       THEN [vm EXCEPT !.joined = TRUE] ELSE vm : vm \in vms}
            /\ steps' = Append(steps, Step("join", <<Head(joinQueue)>>,
                                           ExitResult(code)))
            /\ UNCHANGED <<pc, err>>
       \/ /\ err' = Error("Other", "join_worker_exec")
          /\ steps' = Append(steps, Step("join", <<Head(joinQueue)>>,
                                         "Other"))
          /\ pc' = "cn_handler"
          /\ UNCHANGED <<joinQueue, joinResults, vms>>
    /\ UNCHANGED <<req, task, rollbackErr, targets, asked>>
    /\ UNCHANGED <<nodeFrameBut, terminalWrites>>

\* join_cluster(target_nodes), the collected results
CnJoinFinish ==
    /\ pc = "cn_join_workers"
    /\ joinQueue = <<>>
    /\ IF get_script_execution_errors(joinResults) # {}
       THEN /\ err' = Error("ScriptExecutionError", "join_workers")
            /\ pc' = "cn_handler"
       ELSE IF \E i \in 1..Len(joinResults) : joinResults[i] # 0
       THEN /\ err' = Error("ClusterJoiningError", "join_workers")
            /\ pc' = "cn_handler"
       ELSE /\ pc' = "cn_success"
            /\ UNCHANGED err
    /\ UNCHANGED <<req, vms, task, joinQueue, joinResults, rollbackErr,
                   targets, asked>>
    /\ UNCHANGED nodeFrame

CnMarkSuccess ==
    /\ pc = "cn_success"
    /\ task' = [status |-> "SUCCESS", msg |-> Error("", "Added node(s)")]
    /\ pc' = "done"
    /\ UNCHANGED <<req, vms, err, joinQueue, joinResults, rollbackErr,
                   targets, asked>>
    /\ terminalWrites' = terminalWrites + 1
    /\ UNCHANGED <<nodeFrameBut, steps>>

\* the nodes the rollback of _create_nodes_async deletes: err.node_names
RollbackTargets_AllWorkers(node_names) == get_node_names(vms, WORKER)
RollbackTargets(node_names) == node_names

\* the except clauses of _create_nodes_async: NodeCreationError is rolled
\* back (the nodes it names are deleted) when asked to; anything else is not
CnHandler ==
    /\ pc = "cn_handler"
    /\ IF IsInstance(err.kind, "NodeCreationError") /\ req.rollback
       THEN \/ /\ task' = Running("Deleting nodes (rollback=True)")
               /\ targets' = RollbackTargets(targets)
               /\ pc' = "dn_kubectl"
            \/ /\ UpdateTaskRaises
               /\ UNCHANGED targets
       ELSE /\ pc' = "cn_mark_error"
            /\ UNCHANGED <<task, targets>>
    /\ UNCHANGED <<req, vms, err, joinQueue, joinResults, rollbackErr,
                   asked>>
    /\ UNCHANGED nodeFrame

CnMarkError ==
    /\ pc = "cn_mark_error"
    /\ \/ /\ task' = [status |-> "ERROR", msg |-> err]
          /\ terminalWrites' = terminalWrites + 1
          /\ pc' = "done"
       \/ /\ UpdateTaskRaises
          /\ UNCHANGED terminalWrites
    /\ UNCHANGED <<req, vms, err, joinQueue, joinResults, rollbackErr,
                   targets, asked>>
    /\ UNCHANGED <<nodeFrameBut, steps>>

\* the check of delete_nodes on the target list
HasMasterName_First(names) == StartsWith(names[1], MASTER)
HasMasterName(names) ==
    \E i \in 1..Len(names) : StartsWith(names[i], MASTER)

TargetLists ==
    UNION {[1..n -> {NodeName(t, i) : t \in NodeTypes, i \in Ids}] :
               n \in 0..MaxTargets}

\* delete_nodes up to the dispatch of _delete_nodes_async
DeleteNodes ==
    /\ pc = "idle"
    /\ \E names \in TargetLists, cn \in NodeReqNames :
         /\ asked' = [op |-> "delete_nodes", num |-> 0, names |-> names,
                      cluster_name |-> cn]
         /\ IF Len(names) = 0
            THEN /\ pc' = "returned"
                 /\ UNCHANGED <<req, task, targets>>
            ELSE IF HasMasterName(names) \/ get_cluster(cn) # "found"
            THEN /\ pc' = "rejected"
                 /\ UNCHANGED <<req, task, targets>>
            ELSE /\ req' = [NoReq EXCEPT !.op = "delete_nodes",
                                         !.cluster_name = cn]
                 /\ targets' = names
                 /\ task' = Running("Deleting node(s) from cluster")
                 /\ pc' = "dn_drain"
    /\ UNCHANGED <<vms, err, joinQueue, joinResults, rollbackErr>>
    /\ UNCHANGED nodeFrame

\* the failures of the drain that _delete_nodes_async puts up with
DrainTolerated_None(kind) == FALSE
DrainTolerated(kind) ==
    \/ IsInstance(kind, "NodeOperationError")
    \/ IsInstance(kind, "ScriptExecutionError")

\* _delete_nodes_async: _drain_nodes runs one script on the first master
DnDrain ==
    /\ pc = "dn_drain"
    /\ \/ /\ vms' = {IF vm.name \in Range(targets)
                     THEN [vm EXCEPT !.drained = TRUE] ELSE vm : vm \in vms}
          /\ task' = Running("Deleting node(s)")
          /\ pc' = "dn_kubectl"
          /\ steps' = Append(steps, Step("drain", targets, "ok"))
          /\ UNCHANGED err
       \/ \E e \in {Error("ScriptExecutionError", "drain"),
                    Error("Other", "drain")} :
            /\ steps' = Append(steps, Step("drain", targets, e.kind))
            /\ IF DrainTolerated(e.kind)
               THEN /\ task' = Running("Deleting node(s)")
                    /\ pc' = "dn_kubectl"
                    /\ UNCHANGED <<vms, err>>
               ELSE /\ err' = e
                    /\ pc' = "dn_mark_error"
                    /\ task' = Running("Draining node(s)")
                    /\ UNCHANGED vms
    /\ UNCHANGED <<req, joinQueue, joinResults, rollbackErr, targets, asked>>
    /\ UNCHANGED <<nodeFrameBut, terminalWrites>>

\* _delete_nodes: `kubectl delete node` on the first master, best-effort
DnKubectl ==
    /\ pc = "dn_kubectl"
    /\ \/ /\ vms' = {IF vm.name \in Range(targets)
                     THEN [vm EXCEPT !.joined = FALSE] ELSE vm : vm \in vms}
          /\ steps' = Append(steps, Step("kubectl_delete", targets, "ok"))
       \/ /\ steps' = Append(steps, Step("kubectl_delete", targets, "Other"))
          /\ UNCHANGED vms
    /\ joinQueue' = targets
    /\ pc' = "dn_undeploy"
    /\ UNCHANGED <<req, task, err, joinResults, rollbackErr, targets, asked>>
    /\ UNCHANGED <<nodeFrameBut, terminalWrites>>

\* a failure leaves _delete_nodes: _delete_nodes_async marks the task ERROR
\* with it, the rollback of _create_nodes_async logs it
DnRaise(e) ==
    IF req.op = "delete_nodes"
    THEN /\ err' = e
         /\ pc' = "dn_mark_error"
         /\ UNCHANGED rollbackErr
    ELSE /\ rollbackErr' = e
         /\ pc' = "cn_mark_error"
         /\ UNCHANGED err

\* _delete_nodes: the VM of the next name is looked up, which raises when
\* the vApp has no such VM, and undeployed, best-effort
DnUndeploy ==
    /\ pc = "dn_undeploy"
    /\ joinQueue # <<>>
    /\ IF Head(joinQueue) \notin ExistingNames(vms)
       THEN /\ DnRaise(Error("Other", "get_vm"))
            /\ UNCHANGED <<vms, joinQueue>>
       ELSE /\ \/ vms' = {IF vm.name = Head(joinQueue)
                          THEN [vm EXCEPT !.on = FALSE] ELSE vm : vm \in vms}
               \/ UNCHANGED vms
            /\ joinQueue' = Tail(joinQueue)
            /\ UNCHANGED <<pc, err, rollbackErr>>
    /\ UNCHANGED <<req, task, joinResults, targets, asked>>
    /\ UNCHANGED nodeFrame

\* _delete_nodes: vapp.delete_vms(node_names) and its wait
DnDeleteVms ==
    /\ pc = "dn_undeploy"
    /\ joinQueue = <<>>
    /\ \/ /\ vms' = {vm \in vms : vm.name \notin Range(targets)}
          /\ pc' = IF req.op = "delete_nodes" THEN "dn_success"
                   ELSE "cn_mark_error"
          /\ UNCHANGED <<err, rollbackErr>>
       \/ /\ DnRaise(Error("Other", "delete_vms"))
          /\ UNCHANGED vms
    /\ UNCHANGED <<req, task, joinQueue, joinResults, targets, asked>>
    /\ UNCHANGED nodeFrame

DnMarkSuccess ==
    /\ pc = "dn_success"
    /\ task' = [status |-> "SUCCESS", msg |-> Error("", "Deleted node(s)")]
    /\ pc' = "done"
    /\ UNCHANGED <<req, vms, err, joinQueue, joinResults, rollbackErr,
                   targets, asked>>
    /\ terminalWrites' = terminalWrites + 1
    /\ UNCHANGED <<nodeFrameBut, steps>>

DnMarkError ==
    /\ pc = "dn_mark_error"
    /\ \/ /\ task' = [status |-> "ERROR", msg |-> err]
          /\ terminalWrites' = terminalWrites + 1
          /\ pc' = "done"
       \/ /\ UpdateTaskRaises
          /\ UNCHANGED terminalWrites
    /\ UNCHANGED <<req, vms, err, joinQueue, joinResults, rollbackErr,
                   targets, asked>>
    /\ UNCHANGED <<nodeFrameBut, steps>>

(***************************************************************************)
(* delete_cluster and its detached execution _delete_cluster_async.        *)
(***************************************************************************)
\* what delete_cluster leaves alone
dcFrame == <<cluster_id, tags, atFailure, vms0, targets, joinQueue,
             joinResults, rollbackErr, pureVars>>

\* delete_cluster up to the dispatch of _delete_cluster_async
DeleteCluster ==
    /\ pc = "idle"
    /\ \E cn \in NodeReqNames :
         /\ asked' = [op |-> "delete_cluster", num |-> 0, names |-> <<>>,
                      cluster_name |-> cn]
         /\ IF get_cluster(cn) # "found"
            THEN /\ pc' = "rejected"
                 /\ UNCHANGED <<req, task>>
            ELSE /\ req' = [NoReq EXCEPT !.op = "delete_cluster",
                                         !.cluster_name = cn]
                 /\ task' = Running("Deleting cluster")
                 /\ pc' = "dc_delete"
    /\ UNCHANGED <<vappExists, vms, deleteIssued, err, histVars>>
    /\ UNCHANGED dcFrame

\* _delete_vapp: vdc.delete_vapp(vapp_name, force=True) returns a task, or
\* an empty result when the vApp is already being deleted elsewhere, or
\* raises
DcDeleteVapp ==
    /\ pc = "dc_delete"
    /\ \/ /\ \E result \in {"task", "empty"} :
               steps' = Append(steps, Step("delete_vapp", <<>>, result))
          /\ deleteIssued' = TRUE
          /\ pc' = "dc_wait"
          /\ UNCHANGED err
       \/ /\ err' = Error("Other", "delete_vapp")
          /\ pc' = "dc_mark_error"
          /\ UNCHANGED <<steps, deleteIssued>>
    /\ UNCHANGED <<req, task, vappExists, vms, asked, terminalWrites>>
    /\ UNCHANGED dcFrame

\* wait_for_status on what delete_vapp returned; _delete_vapp hands it over
\* unexamined. On an empty result the call has no task to poll: it raises,
\* or returns at once
WaitRaisesOnEmpty == {TRUE, FALSE}

\* _delete_vapp: client.get_task_monitor().wait_for_status(task)
DcWait ==
    /\ pc = "dc_wait"
    /\ IF steps[Len(steps)].result = "empty"
       THEN \E raises \in WaitRaisesOnEmpty :
               IF raises
               THEN /\ err' = Error("Other", "wait_empty_result")
                    /\ pc' = "dc_mark_error"
                    /\ UNCHANGED <<vappExists, vms>>
               ELSE /\ pc' = "dc_success"
                    /\ UNCHANGED <<err, vappExists, vms>>
       ELSE \/ /\ vappExists' = FALSE
               /\ vms' = {}
               /\ pc' = "dc_success"
               /\ UNCHANGED err
            \/ /\ err' = Error("Other", "wait_delete_vapp")
               /\ pc' = "dc_mark_error"
               /\ UNCHANGED <<vappExists, vms>>
    /\ UNCHANGED <<req, task, deleteIssued, asked, histVars>>
    /\ UNCHANGED dcFrame

DcMarkSuccess ==
    /\ pc = "dc_success"
    /\ task' = [status |-> "SUCCESS", msg |-> Error("", "Deleted cluster")]
    /\ terminalWrites' = terminalWrites + 1
    /\ pc' = "done"
    /\ UNCHANGED <<req, vappExists, vms, deleteIssued, err, asked, steps>>
    /\ UNCHANGED dcFrame

DcMarkError ==
    /\ pc = "dc_mark_error"
    /\ \/ /\ task' = [status |-> "ERROR", msg |-> err]
          /\ terminalWrites' = terminalWrites + 1
          /\ pc' = "done"
       \/ /\ UpdateTaskRaises
          /\ UNCHANGED terminalWrites
    /\ UNCHANGED <<req, vappExists, vms, deleteIssued, err, asked, steps>>
    /\ UNCHANGED dcFrame

(***************************************************************************)
(* upgrade_cluster and its detached execution _upgrade_cluster_async.      *)
(***************************************************************************)
\* what the upgrade leaves alone
upFrame == <<cluster_id, vappExists, deleteIssued, joinResults, rollbackErr,
             targets, vms0, nameVars, auxVars, planVars>>

VersionsOf(t) == [docker |-> t.docker_version, k8s |-> t.kubernetes_version,
                  cni |-> t.cni_version]

\* the versions the metadata of the cluster can record when the upgrade is
\* asked for
UpClusterVersions ==
    {VersionsOf(Templates[1]),
     [docker |-> <<1, 9>>, k8s |-> <<1, 14, 0>>, cni |-> <<0, 6, 0>>],
     [docker |-> <<1, 9>>, k8s |-> <<1, 15, 0>>, cni |-> <<0, 7, 0>>],
     [docker |-> <<1, 8>>, k8s |-> <<1, 15, 0>>, cni |-> <<0, 7, 0>>],
     [docker |-> <<1, 9>>, k8s |-> <<2, 0, 0>>, cni |-> <<0, 7, 0>>],
     [docker |-> <<1, 9>>, k8s |-> <<1, 16, 0>>, cni |-> <<0, 7, 0>>]}

UpgradeInit ==
    /\ NodeInit
    /\ gCluster \in UpClusterVersions
    /\ gTemplate = NoVersions
    /\ gFlags = NoFlags
    /\ gPhase = "idle"

\* the template of the upgrade plan with the requested name and revision,
\* as the loop of upgrade_cluster finds it; <<>> when there is none
UpgradeTarget(plan, tn, tr) ==
    SelectSeq(plan, LAMBDA t : t.name = tn /\ ToStr(t.revision) = ToStr(tr))

\* upgrade_cluster up to the dispatch of _upgrade_cluster_async
UpgradeCluster ==
    /\ pc = "idle"
    /\ \E cn \in NodeReqNames, tn \in TemplateNames,
          tr \in TemplateRevisions :
         LET plan == UpgradeLoop(Templates, tags.template_name,
                                 tags.template_revision)
             found == UpgradeTarget(plan.upgrades, tn, tr)
         IN  /\ asked' = [op |-> "upgrade_cluster", num |-> tr,
                          names |-> <<tn>>, cluster_name |-> cn]
             /\ IF \/ get_cluster(cn) # "found"
                   \/ plan.raised
                   \/ found = <<>>
                THEN /\ pc' = "rejected"
                     /\ UNCHANGED <<req, task, gTemplate>>
                ELSE /\ req' = [op |-> "upgrade_cluster",
                                cluster_name |-> cn,
                                cluster |->
                                    [versions |-> gCluster,
                                     tags |-> tags,
                                     master_nodes |->
                                         get_node_names(vms, MASTER),
                                     nodes |-> get_node_names(vms, WORKER)],
                                template |-> found[1]]
                     /\ gTemplate' = VersionsOf(found[1])
                     /\ task' = Running("Upgrading cluster")
                     /\ pc' = "up_decide"
    /\ UNCHANGED <<vms, tags, err, atFailure, joinQueue, histVars, gCluster,
                   gFlags, gPhase>>
    /\ UNCHANGED upFrame

\* an exception leaves the try block of _upgrade_cluster_async
UpRaise(step) ==
    /\ err' = Error("Other", step)
    /\ atFailure' = [vappExists |-> vappExists, vms |-> vms]
    /\ pc' = "up_mark_error"

\* where the execution goes after the decision, after the Kubernetes part,
\* after the drain of all nodes, after the runtime upgrade
UpAfterDecide(flags) ==
    IF flags.k8s THEN "up_m_drain"
    ELSE IF flags.docker \/ flags.cni THEN "up_all_drain"
    ELSE "up_all_uncordon"

UpAfterK8s_NoDrain(flags) ==
    IF flags.docker THEN "up_docker"
    ELSE IF flags.cni THEN "up_cni"
    ELSE "up_all_uncordon"
UpAfterK8s(flags) ==
    IF flags.docker \/ flags.cni THEN "up_all_drain" ELSE "up_all_uncordon"

UpAfterDrainAll(flags) ==
    IF flags.docker THEN "up_docker"
    ELSE IF flags.cni THEN "up_cni"
    ELSE "up_all_uncordon"

UpAfterDocker(flags) ==
    IF flags.cni THEN "up_cni" ELSE "up_all_uncordon"

\* the versions are parsed and the three flags computed from the cluster
\* record handed over and the template
UpDecide ==
    /\ pc = "up_decide"
    /\ \/ /\ gFlags' = [docker |-> UpgradeDocker(req.cluster.versions,
                                                 gTemplate),
                        k8s |-> UpgradeK8s(req.cluster.versions, gTemplate),
                        cni |-> UpgradeCni(req.cluster.versions, gTemplate)]
          /\ gPhase' = "decided"
          /\ pc' = UpAfterDecide(gFlags')
          /\ UNCHANGED <<err, atFailure>>
       \/ /\ UpRaise("decide")
          /\ UNCHANGED <<gFlags, gPhase>>
    /\ UNCHANGED <<req, task, vms, tags, joinQueue, asked, histVars,
                   gCluster, gTemplate>>
    /\ UNCHANGED upFrame

\* no step of the upgrade has a try block of its own: whatever it raises
\* leaves the try block of _upgrade_cluster_async
UpStepFatal_DrainTolerated(op) == op # "drain"
UpStepFatal(op) == TRUE

\* what a step that went well does to the nodes it is about
UpEffect(op, nodes) ==
    {IF vm.name \in Range(nodes)
     THEN [vm EXCEPT !.drained = IF op = "drain" THEN TRUE
                                 ELSE IF op = "uncordon" THEN FALSE
                                 ELSE vm.drained]
     ELSE vm : vm \in vms}

\* one in-guest step (_drain_nodes, run_script_in_nodes, _uncordon_nodes):
\* the task is updated with its message, the script is run, and it returns
\* or raises
UpGuestStep(at, op, nodes, next) ==
    /\ pc = at
    /\ task' = Running(at)
    /\ \/ /\ steps' = Append(steps, Step(op, nodes, "ok"))
          /\ vms' = UpEffect(op, nodes)
          /\ pc' = next
          /\ UNCHANGED <<err, atFailure>>
       \/ \E kind \in {"ScriptExecutionError", "Other"} :
            /\ steps' = Append(steps, Step(op, nodes, kind))
            /\ UNCHANGED vms
            /\ IF UpStepFatal(op)
               THEN /\ err' = Error(kind, at)
                    /\ atFailure' = [vappExists |-> vappExists, vms |-> vms]
                    /\ pc' = "up_mark_error"
               ELSE /\ pc' = next
                    /\ UNCHANGED <<err, atFailure>>
    /\ UNCHANGED <<req, tags, asked, terminalWrites, gateVars>>
    /\ UNCHANGED upFrame

UpMasters == req.cluster.master_nodes
UpWorkers == req.cluster.nodes
UpAllNodes == UpMasters \o UpWorkers

\* after the master, or after a worker: the next worker, or the rest
UpNextWorker(queue) ==
    IF queue # <<>> THEN "up_w_drain" ELSE UpAfterK8s(gFlags)

UpDrainMaster ==
    /\ UpGuestStep("up_m_drain", "drain", UpMasters, "up_m_k8s")
    /\ UNCHANGED joinQueue

UpK8sMaster ==
    /\ UpGuestStep("up_m_k8s", "k8s", UpMasters, "up_m_uncordon")
    /\ UNCHANGED joinQueue

UpUncordonMaster ==
    /\ UpGuestStep("up_m_uncordon", "uncordon", UpMasters,
                   UpNextWorker(UpWorkers))
    /\ joinQueue' = UpWorkers

UpDrainWorker ==
    /\ pc = "up_w_drain"
    /\ joinQueue # <<>>
    /\ UpGuestStep("up_w_drain", "drain", <<Head(joinQueue)>>, "up_w_k8s")
    /\ UNCHANGED joinQueue

UpK8sWorker ==
    /\ pc = "up_w_k8s"
    /\ joinQueue # <<>>
    /\ UpGuestStep("up_w_k8s", "k8s", <<Head(joinQueue)>>, "up_w_uncordon")
    /\ UNCHANGED joinQueue

UpUncordonWorker ==
    /\ pc = "up_w_uncordon"
    /\ joinQueue # <<>>
    /\ UpGuestStep("up_w_uncordon", "uncordon", <<Head(joinQueue)>>,
                   UpNextWorker(Tail(joinQueue)))
    /\ joinQueue' = Tail(joinQueue)

UpDrainAll ==
    /\ UpGuestStep("up_all_drain", "drain", UpAllNodes,
                   UpAfterDrainAll(gFlags))
    /\ UNCHANGED joinQueue

UpDocker ==
    /\ UpGuestStep("up_docker", "docker", UpAllNodes, UpAfterDocker(gFlags))
    /\ UNCHANGED joinQueue

UpCni ==
    /\ UpGuestStep("up_cni", "cni", UpMasters, "up_all_uncordon")
    /\ UNCHANGED joinQueue

UpUncordonAll ==
    /\ UpGuestStep("up_all_uncordon", "uncordon", UpAllNodes, "up_metadata")
    /\ UNCHANGED joinQueue

\* the version tags set_multiple_metadata is given: those of the template,
\* whichever of the upgrade steps were run
WrittenVersions_OnlyUpgraded(flags, c, t) ==
    [docker |-> IF flags.docker THEN t.docker ELSE c.docker,
     k8s |-> IF flags.k8s THEN t.k8s ELSE c.k8s,
     cni |-> IF flags.cni THEN t.cni ELSE c.cni]
WrittenVersions(flags, c, t) == t

\* the metadata of the vApp is rewritten with the template's values
UpWriteMetadata ==
    /\ pc = "up_metadata"
    /\ task' = Running("up_metadata")
    /\ \/ /\ tags' = [tags EXCEPT
                         !.template_name = req.template.name,
                         !.template_revision = ToStr(req.template.revision)]
          /\ gCluster' = WrittenVersions(gFlags, gCluster, gTemplate)
          /\ gPhase' = "upgraded"
          /\ steps' = Append(steps, Step("metadata", <<>>, "ok"))
          /\ pc' = "up_success"
          /\ UNCHANGED <<err, atFailure>>
       \/ /\ UpRaise("up_metadata")
          /\ steps' = Append(steps, Step("metadata", <<>>, "Other"))
          /\ UNCHANGED <<tags, gCluster, gPhase>>
       \* the wait on the metadata task fails after the write was applied
       \/ /\ UpRaise("up_metadata")
          /\ steps' = Append(steps, Step("metadata", <<>>, "Other"))
          /\ tags' = [tags EXCEPT
                         !.template_name = req.template.name,
                         !.template_revision = ToStr(req.template.revision)]
          /\ gCluster' = WrittenVersions(gFlags, gCluster, gTemplate)
          /\ UNCHANGED gPhase
    /\ UNCHANGED <<req, vms, joinQueue, asked, terminalWrites, gTemplate,
                   gFlags>>
    /\ UNCHANGED upFrame

UpMarkSuccess ==
    /\ pc = "up_success"
    /\ task' = [status |-> "SUCCESS", msg |-> Error("", "Upgraded cluster")]
    /\ terminalWrites' = terminalWrites + 1
    /\ pc' = "done"
    /\ UNCHANGED <<req, vms, tags, err, atFailure, joinQueue, asked, steps,
                   gateVars>>
    /\ UNCHANGED upFrame

UpMarkError ==
    /\ pc = "up_mark_error"
    /\ \/ /\ task' = [status |-> "ERROR", msg |-> err]
          /\ terminalWrites' = terminalWrites + 1
          /\ pc' = "done"
       \/ /\ UpdateTaskRaises
          /\ UNCHANGED terminalWrites
    /\ UNCHANGED <<req, vms, tags, err, atFailure, joinQueue, asked, steps,
                   gateVars>>
    /\ UNCHANGED upFrame

UpgradeNext ==
    \/ UpgradeCluster
    \/ UpDecide
    \/ UpDrainMaster
    \/ UpK8sMaster
    \/ UpUncordonMaster
    \/ UpDrainWorker
    \/ UpK8sWorker
    \/ UpUncordonWorker
    \/ UpDrainAll
    \/ UpDocker
    \/ UpCni
    \/ UpUncordonAll
    \/ UpWriteMetadata
    \/ UpMarkSuccess
    \/ UpMarkError

NodeNext ==
    \/ ResizeCluster
    \/ CreateNodes
    \/ CnAdd
    \/ CnJoinMaster
    \/ CnJoinWorker
    \/ CnJoinFinish
    \/ CnMarkSuccess
    \/ CnHandler
    \/ CnMarkError
    \/ DeleteNodes
    \/ DnDrain
    \/ DnKubectl
    \/ DnUndeploy
    \/ DnDeleteVms
    \/ DnMarkSuccess
    \/ DnMarkError
    \/ DeleteCluster
    \/ DcDeleteVapp
    \/ DcWait
    \/ DcMarkSuccess
    \/ DcMarkError

(***************************************************************************)
(* The six mutating operations side by side.                               *)
(***************************************************************************)
MutatingOps == {"create_cluster", "resize_cluster", "create_nodes",
                "delete_nodes", "delete_cluster", "upgrade_cluster"}

\* a request without the cluster name: validate_payload (or the lookup of
\* the key before it) raises to the caller
MissingField ==
    /\ pc = "idle"
    /\ \E op \in MutatingOps : asked' = [NoAsk EXCEPT !.op = op]
    /\ pc' = "rejected"
    /\ UNCHANGED <<createVars_but_pc, targets, vms0, nameVars, auxVars, planVars,
                   gateVars, histVars>>

AllNext ==
    \/ MissingField
    \/ CreateNext
    \/ NodeNext
    \/ UpgradeNext

(***************************************************************************)
(* The specifications.                                                     *)
(***************************************************************************)
\* one create_cluster invocation
Init ==
    CreateInit /\ NodeIdle /\ NameIdle
    /\ PlanIdle /\ HistInit /\ AuxIdle /\ GateIdle
Next == CreateNext
Spec == Init /\ [][Next]_vars

\* one node operation on an existing cluster
InitNodes ==
    NodeInit /\ NameIdle /\ PlanIdle
    /\ HistInit /\ AuxIdle /\ GateIdle
SpecNodes == InitNodes /\ [][NodeNext]_vars

\* one upgrade of an existing cluster
InitUpgrade == UpgradeInit /\ NameIdle /\ PlanIdle /\ HistInit /\ AuxIdle
SpecUpgrade == InitUpgrade /\ [][UpgradeNext]_vars

\* one request of any of the six operations, with a cluster or without
InitAll == Init \/ InitUpgrade
SpecAll == InitAll /\ [][AllNext]_vars

\* the same, the detached execution being scheduled until it ends
FairSpecAll == SpecAll /\ WF_vars(AllNext)

\* is_valid_cluster_name on one name
InitName ==
    CreateInit /\ NodeIdle /\ NameInit
    /\ PlanIdle /\ HistInit /\ AuxIdle /\ GateIdle
SpecName == InitName /\ [][ValidateName]_vars

\* get_cluster_upgrade_plan on one cluster and one configuration
InitPlan ==
    CreateInit /\ NodeIdle /\ NameIdle
    /\ PlanInit /\ HistInit /\ AuxIdle /\ GateIdle
SpecPlan == InitPlan /\ [][GetClusterUpgradePlan]_vars

\* the upgrade decision, the metadata rewrite, the decision again
InitGate ==
    CreateInit /\ NodeIdle /\ NameIdle
    /\ PlanIdle /\ HistInit /\ AuxIdle /\ GateInit
GateNext == Decide \/ WriteUpgradeMetadata
SpecGate == InitGate /\ [][GateNext]_vars

\* one call of execute_script_in_nodes
MainIdle ==
    CreateInit /\ NodeIdle /\ NameIdle
    /\ PlanIdle /\ HistInit /\ GateIdle

InitExec ==
    MainIdle /\ ExecInit /\ TaskIdle /\ OtherIdle /\ LookupIdle
    /\ ResizeIdle
SpecExec == InitExec /\ [][ExecNext]_vars

\* the same, the calling thread being scheduled until the call is over
FairSpecExec == SpecExec /\ WF_vars(ExecNext)

\* one broker invocation, as far as its task goes
InitTask ==
    MainIdle /\ ExecIdle /\ TaskInit /\ OtherIdle /\ LookupIdle
    /\ ResizeIdle
SpecTask == InitTask /\ [][TaskNext]_vars

\* one call of get_all_clusters
InitLookup ==
    MainIdle /\ ExecIdle /\ TaskIdle /\ OtherIdle /\ LookupInit
    /\ ResizeIdle
SpecLookup == InitLookup /\ [][LookupNext]_vars

\* resize_cluster: the worker count is read, the request checked, and the
\* difference handed to create_nodes, which starts the detached execution
RzResizeCluster(i) ==
    /\ rzPc[i] = "call"
    /\ IF \/ ResizeRejects(rzWorkers, rzWanted)
          \/ CreateNodesRejects(ResizeDelta(rzWanted, rzWorkers))
       THEN /\ rzPc' = [rzPc EXCEPT ![i] = "rejected"]
            /\ UNCHANGED <<rzDelta, rzStatus>>
       ELSE /\ rzDelta' = [rzDelta EXCEPT
                              ![i] = ResizeDelta(rzWanted, rzWorkers)]
            /\ rzStatus' = [rzStatus EXCEPT ![i] = "RUNNING"]
            /\ rzPc' = [rzPc EXCEPT ![i] = "add"]
    /\ UNCHANGED <<rzWorkers, rzWanted>>
    /\ UNCHANGED notResizeVars

\* _create_nodes_async: add_nodes adds the nodes asked for, or fails with
\* some or none of them left in the vApp
RzAddNodes(i) ==
    /\ rzPc[i] = "add"
    /\ \/ /\ rzWorkers' = rzWorkers + rzDelta[i]
          /\ rzPc' = [rzPc EXCEPT ![i] = "join"]
          /\ UNCHANGED rzStatus
       \/ \E left \in {0, rzDelta[i]} :
            /\ rzWorkers' = rzWorkers + left
            /\ rzStatus' = [rzStatus EXCEPT ![i] = "ERROR"]
            /\ rzPc' = [rzPc EXCEPT ![i] = "done"]
    /\ UNCHANGED <<rzWanted, rzDelta>>
    /\ UNCHANGED notResizeVars

\* _create_nodes_async: join_cluster on the new nodes, then SUCCESS, or ERROR
\* with the nodes left where they are
RzJoin(i) ==
    /\ rzPc[i] = "join"
    /\ \E status \in {"SUCCESS", "ERROR"} :
         rzStatus' = [rzStatus EXCEPT ![i] = status]
    /\ rzPc' = [rzPc EXCEPT ![i] = "done"]
    /\ UNCHANGED <<rzWorkers, rzWanted, rzDelta>>
    /\ UNCHANGED notResizeVars

ResizeNext ==
    \E i \in Resizers :
        \/ RzResizeCluster(i)
        \/ RzAddNodes(i)
        \/ RzJoin(i)

\* two resizes of one cluster to the same worker count
InitResize ==
    MainIdle /\ ExecIdle /\ TaskIdle /\ OtherIdle /\ LookupIdle
    /\ ResizeInit
SpecResize == InitResize /\ [][ResizeNext]_vars

(***************************************************************************)
(* Properties of create_cluster (specification Spec).                      *)
(***************************************************************************)
\* the steps that provision nodes or bootstrap the cluster
ProvBootSteps ==
    {"add_master", "init_cluster", "add_workers", "join_master_exec",
     "join_master", "join_token_parse", "join_worker_exec", "join_workers",
     "add_nfs"}

\* the positions of the log where a script of the given kind was run
StepsOf(op) == {i \in 1..Len(steps) : steps[i].op = op}

NodesOf(type) == {vm \in vms : StartsWith(vm.name, type)}

\* C1: with rollback=true, once the task is marked ERROR after a failure of
\* a provisioning or bootstrap step raised while the VM group existed, the
\* VM group has been deleted before that and neither it nor any of its
\* nodes remains.  (Stated for the runs in which the rollback itself met no
\* failure, which only makes the statement weaker.)
C1_RollbackDeletesVapp ==
    ( /\ task.status = "ERROR"
      /\ req.rollback
      /\ err.step \in ProvBootSteps
      /\ atFailure.vappExists
      /\ rollbackErr = NoErr )
    => (deleteIssued /\ ~vappExists /\ vms = {})

\* C2: with rollback=false, after a failure of a provisioning or bootstrap
\* step raised while the VM group existed, no delete is ever issued, the VM
\* group and the nodes created so far stay as the failure left them, and the
\* execution ends with the task in ERROR.
C2_NoRollbackLeavesVapp ==
    ( /\ err.step \in ProvBootSteps
      /\ ~req.rollback
      /\ atFailure.vappExists )
    => /\ ~deleteIssued
       /\ pc \in {"handler", "mark_error", "done", "escaped"}
       /\ vappExists
       /\ vms = atFailure.vms
       /\ pc = "done" => task.status = "ERROR"

C2_Witness ==
    /\ pc = "done"
    /\ ~req.rollback
    /\ err.step = "add_workers"
    /\ Cardinality(NodesOf(WORKER)) = 2
    /\ Cardinality(NodesOf(MASTER)) = 1
    /\ task.status = "ERROR"

C4_RollbackBestEffort ==
    rollbackErr # NoErr
    => /\ pc \in {"mark_error", "done", "escaped"}
       /\ IsInstance(err.kind, "ClusterOperationError")
       /\ pc = "done" => task = [status |-> "ERROR", msg |-> err]

C4_Witness ==
    /\ pc = "done"
    /\ rollbackErr = Error("Other", "delete_vapp")
    /\ deleteIssued
    /\ vappExists
    /\ task = [status |-> "ERROR", msg |-> err]
    /\ err # rollbackErr

\* C10: when the task is SUCCESS the VM group exists, is tagged with the
\* generated cluster id and the template name and revision, and holds one
\* master, num_workers workers, all of them joined, and one NFS node if
\* enable_nfs was set and none otherwise.
C10_SuccessShape ==
    task.status = "SUCCESS"
    => /\ vappExists
       /\ tags.cluster_id = cluster_id
       /\ tags.template_name = req.template_name
       /\ tags.template_revision = ToStr(req.template_revision)
       /\ Cardinality(NodesOf(MASTER)) = 1
       /\ Cardinality(NodesOf(WORKER)) = req.num_workers
       /\ \A vm \in NodesOf(WORKER) \cup NodesOf(MASTER) : vm.on /\ vm.joined
       /\ Cardinality(NodesOf(NFS)) = (IF req.enable_nfs THEN 1 ELSE 0)
       /\ Cardinality(vms) =
              1 + req.num_workers + (IF req.enable_nfs THEN 1 ELSE 0)

C10_Witness ==
    /\ task.status = "SUCCESS"
    /\ req.num_workers = 2
    /\ req.enable_nfs
    /\ req.template_revision = 2
    /\ Cardinality(NodesOf(WORKER)) = 2

\* the place of a failing step in the list of steps of create_cluster
StepRank(step) ==
    CASE step \in {"get_org", "create_vapp", "wait_vapp"} -> 1
      [] step = "set_multiple_metadata" -> 2
      [] step = "add_master" -> 3
      [] step = "init_cluster" -> 4
      [] step = "master_ip" -> 5
      [] step = "add_workers" -> 6
      [] step \in {"join_master_exec", "join_master", "join_token_parse",
                   "join_worker_exec", "join_workers"} -> 7
      [] step = "add_nfs" -> 8
      [] OTHER -> 9

\* something of step k of create_cluster is there
Begun(k) ==
    CASE k = 1 -> vappExists
      [] k = 2 -> tags.cluster_id # ""
      [] k = 3 -> NodesOf(MASTER) # {}
      [] k = 4 -> \E vm \in NodesOf(MASTER) : vm.joined
      [] k = 5 -> tags.master_ip # ""
      [] k = 6 -> NodesOf(WORKER) # {}
      [] k = 7 -> StepsOf("token") # {}
      [] k = 8 -> NodesOf(NFS) # {}
      [] OTHER -> task.status = "SUCCESS"

\* step k of create_cluster has completed
Completed(k) ==
    CASE k = 1 -> vappExists
      [] k = 2 -> tags.cluster_id = cluster_id /\ cluster_id # ""
      [] k = 3 -> Cardinality(NodesOf(MASTER)) = 1
                  /\ \A vm \in NodesOf(MASTER) : vm.on
      [] k = 4 -> \A vm \in NodesOf(MASTER) : vm.joined
      [] k = 5 -> tags.master_ip # ""
      [] k = 6 -> /\ Cardinality(NodesOf(WORKER)) = req.num_workers
                  /\ \A vm \in NodesOf(WORKER) : vm.on
      [] k = 7 -> /\ \E j \in StepsOf("token") : steps[j].result = "ok"
                  /\ Cardinality(StepsOf("join")) = req.num_workers
                  /\ \A i \in StepsOf("join") : steps[i].result = "ok"
      [] OTHER -> req.enable_nfs =>
                      \E vm \in NodesOf(NFS) : vm.on

\* C23: as long as the vApp is not deleted again, a step of create_cluster
\* has begun only when the step before it has completed, and nothing of
\* the steps after a failed step is there.
C23_CreateStepsInOrder ==
    (req.op = "create_cluster" /\ ~deleteIssued) =>
        /\ \A k \in 2..9 : Begun(k) => Completed(k - 1)
        /\ err # NoErr =>
              \A k \in 1..9 : k > StepRank(err.step) => ~Begun(k)

\* the cluster init failed and no rollback was asked for: there is a master
\* and no worker, though workers were asked for
C23_Witness ==
    /\ req.op = "create_cluster"
    /\ pc = "done"
    /\ err.step = "init_cluster"
    /\ ~req.rollback
    /\ req.num_workers = 2
    /\ NodesOf(MASTER) # {}
    /\ NodesOf(WORKER) = {}
    /\ tags.master_ip = ""

\* C16: a create_cluster request whose cluster name is borne by a visible
\* cluster (or by two) is rejected: no cluster id is generated, no task is
\* created, no vApp and no node is created.
C16_NameCollisionRejected ==
    ( /\ asked.op = "create_cluster"
      /\ asked.cluster_name \in {<<"Z", "7">>, <<"7", "7">>} )
    => /\ pc = "rejected"
       /\ cluster_id = ""
       /\ task = NoTask
       /\ ~vappExists
       /\ vms = {}
       /\ ~deleteIssued

C16_Witness ==
    /\ asked.op = "create_cluster"
    /\ asked.cluster_name = <<"Z", "7">>
    /\ asked.num = 2
    /\ NameAccepted(asked.cluster_name)
    /\ pc = "rejected"
    /\ cluster_id = ""

(***************************************************************************)
(* Properties of the node operations (specification SpecNodes).            *)
(***************************************************************************)
\* the VMs of the cluster, as the request found it, whose name has the
\* worker prefix
WorkersBefore == {vm \in vms0 : vm.name.prefix = WORKER}

\* C5: a resize_cluster request whose target worker count is less than or
\* equal to the number of VMs with the worker prefix is rejected: no task
\* is created, and the nodes of the cluster are what they were.
C5_ResizeRejectsNoGrowth ==
    ( /\ asked.op = "resize_cluster"
      /\ asked.num <= Cardinality(WorkersBefore) )
    => /\ pc = "rejected"
       /\ task = NoTask
       /\ vms = vms0

C5_Witness ==
    /\ asked.op = "resize_cluster"
    /\ asked.num = 2
    /\ Cardinality(WorkersBefore) = 2
    /\ pc = "rejected"
    /\ task = NoTask

\* C6: a delete_nodes request whose target list holds a name with the master
\* prefix, at any position, is rejected: no task is created, and no node is
\* drained, undeployed or removed.
C6_DeleteRejectsMaster ==
    ( /\ asked.op = "delete_nodes"
      /\ \E i \in 1..Len(asked.names) : asked.names[i].prefix = MASTER )
    => /\ pc = "rejected"
       /\ task = NoTask
       /\ vms = vms0

C6_Witness ==
    /\ asked.op = "delete_nodes"
    /\ Len(asked.names) = 2
    /\ asked.names[1] = NodeName(WORKER, 1)
    /\ asked.names[2] = NodeName(MASTER, 1)
    /\ asked.names[1] \in ExistingNames(vms0)
    /\ pc = "rejected"

\* the drain of the node deletion ended with a non-zero exit code
DrainNonZero ==
    /\ req.op = "delete_nodes"
    /\ steps # <<>>
    /\ steps[1] = Step("drain", targets, "ScriptExecutionError")

TargetsGone == \A i \in 1..Len(targets) : targets[i] \notin ExistingNames(vms)

\* C11: when the drain script of delete_nodes returns a non-zero exit code,
\* the execution goes on with the deletion: the failure is not the one the
\* task is marked with, and unless a later step of the deletion fails every
\* target node is removed from the vApp and the task ends SUCCESS.
C11_DrainFailureTolerated ==
    DrainNonZero
    => /\ pc \in {"dn_kubectl", "dn_undeploy", "dn_success", "dn_mark_error",
                  "done", "escaped"}
       /\ err.step # "drain"
       /\ (pc = "done" /\ err = NoErr)
            => (task.status = "SUCCESS" /\ TargetsGone)

C11_Witness ==
    /\ DrainNonZero
    /\ pc = "done"
    /\ task.status = "SUCCESS"
    /\ targets = <<NodeName(WORKER, 1)>>
    /\ NodeName(WORKER, 1) \in ExistingNames(vms0)
    /\ TargetsGone

\* the VMs the vApp has and did not have before the operation
AddedNames == ExistingNames(vms) \ ExistingNames(vms0)

C25_RollbackDeletesNamedNodesOnly ==
    (req.op = "create_nodes" /\ err # NoErr) =>
        /\ vms0 \subseteq vms
        /\ pc \in {"dn_kubectl", "dn_undeploy"}
             => (req.rollback /\ err.kind = "NodeCreationError")
        /\ (pc = "done" /\ req.rollback /\ err.kind = "NodeCreationError"
              /\ rollbackErr = NoErr) => vms = vms0
        /\ pc = "done" => task = [status |-> "ERROR", msg |-> err]

\* two nodes were added to a cluster that had a worker, the addition failed
\* and the rollback removed the two
C25_Witness ==
    /\ req.op = "create_nodes"
    /\ pc = "done"
    /\ req.rollback
    /\ err.kind = "NodeCreationError"
    /\ rollbackErr = NoErr
    /\ Len(targets) = 2
    /\ Cardinality({vm \in vms0 : StartsWith(vm.name, WORKER)}) = 1
    /\ vms = vms0
    /\ task.status = "ERROR"

\* C26: the names add_nodes generates in one call are pairwise distinct and
\* none of them is the name of a VM the vApp already had.
C26_GeneratedNamesDistinct ==
    req.op = "create_nodes" =>
        /\ Distinct(targets)
        /\ Range(targets) \cap ExistingNames(vms0) = {}

\* one call generated the same name twice; the batch addition failed
C26_Witness ==
    /\ req.op = "create_nodes"
    /\ Len(targets) = 2
    /\ targets[1] = targets[2]
    /\ err.kind = "NodeCreationError"
    /\ vms = vms0

\* C27: NFS nodes take no part in the join protocol.  No join script is run
\* on a node with the NFS prefix; an addition of NFS nodes runs neither the
\* token script of the master nor a join script and goes from add_nodes to
\* its SUCCESS update or to its handler; and while create_cluster has an NFS
\* node, its join step is over.
C27_NfsNeverJoins ==
    /\ \A i \in StepsOf("join") :
          \A k \in 1..Len(steps[i].nodes) :
              ~StartsWith(steps[i].nodes[k], NFS)
    /\ (req.op = "create_nodes" /\ req.enable_nfs) =>
          /\ StepsOf("token") = {}
          /\ StepsOf("join") = {}
          /\ pc \notin {"cn_join_master", "cn_join_workers"}
    /\ (req.op = "create_cluster" /\ NodesOf(NFS) # {}) =>
          /\ pc \in {"success", "handler", "rollback_lookup",
                     "rollback_delete", "mark_error", "done", "escaped"}
          /\ err # NoErr => StepRank(err.step) >= 8

\* an NFS node was added to a cluster and reported, nothing was joined
C27_Witness ==
    /\ req.op = "create_nodes"
    /\ req.enable_nfs
    /\ pc = "done"
    /\ task.status = "SUCCESS"
    /\ \E vm \in vms \ vms0 : StartsWith(vm.name, NFS)
    /\ steps = <<>>

\* C28: execute_script_in_nodes runs the script on the nodes one after the
\* other in the order of node_names: the only script running is the one of
\* the node the loop is at, the scripts of all nodes before it were started
\* and have ended, there is one result for each of them, in the same order,
\* and the call returns with a result for every node, whatever the exit codes.
C28_SequentialOneResultPerNode ==
    /\ xRunning \subseteq {xAt}
    /\ xRunning # {} => xPhase = "running"
    /\ xStarted \subseteq 1..xAt
    /\ \A i \in 1..(xAt - 1) : i \in xStarted
    /\ xPhase # "idle" => Len(xResults) = xAt - 1
    /\ \A i \in 1..Len(xResults) : xResults[i].node = xNodes[i]
    /\ xPhase = "returned" =>
          /\ Len(xResults) = Len(xNodes)
          /\ xStarted = 1..Len(xNodes)

\* the script failed on the first of two nodes and was run on the second
C28_Witness ==
    /\ xPhase = "returned"
    /\ Len(xNodes) = 2
    /\ Len(xResults) = 2
    /\ xResults[1].code # 0
    /\ xResults[2].code = 0
    /\ xStarted = {1, 2}

\* what holds of the poll in every state
PollInv ==
    /\ xProbes <= tries
    /\ xPhase = "poll" => (xProbes = 0 \/ xLast # 0)
    /\ (xCheck /\ xPhase \in {"exec", "running"}) =>
          (xProbes >= 1 /\ xLast = 0)
    /\ xCause = "not_ready" => (xProbes = tries /\ xLast # 0)
    /\ xCause \in {"not_ready", "probe", "tools"} => xAt \notin xStarted
    /\ (xCheck /\ xAt \in xStarted) => xLast = 0
    /\ ~xCheck => xProbes = 0

\* C29: _wait_until_ready_to_exec terminates.  It makes at most `tries`
\* probes; while it polls no probe has exited 0, and the script is handed to
\* the guest only after a probe that exited 0; if `tries` probes exited
\* non-zero it raises, and the script is not run on that node.
C29_PollTerminates ==
    /\ []PollInv
    /\ (xPhase = "poll") ~> (xPhase # "poll")

\* the second node of a call was never ready: thirty probes, then the error
C29_Witness ==
    /\ xCause = "not_ready"
    /\ xPhase = "raised"
    /\ xProbes = tries
    /\ xAt = 2
    /\ Len(xResults) = 1
    /\ xStarted = {1}

\* C30: the drain, uncordon and kubectl-delete scripts are run in the guest
\* of one node, the first master of the cluster, whatever nodes they are
\* about; none is run in the guest of a worker or of an NFS node.
C30_KubectlOnFirstMasterOnly ==
    \A i \in 1..Len(steps) :
        steps[i].op \in KubectlOps =>
            /\ Len(steps[i].host) = 1
            /\ steps[i].host[1] = get_node_names(vms0, MASTER)[1]
            /\ StartsWith(steps[i].host[1], MASTER)

\* two workers were drained and deleted from the cluster by scripts run on
\* the master
C30_Witness ==
    /\ req.op = "delete_nodes"
    /\ pc = "done"
    /\ Len(targets) = 2
    /\ \A k \in 1..2 : StartsWith(targets[k], WORKER)
    /\ Len(steps) = 2
    /\ steps[1].op = "drain" /\ steps[1].nodes = targets
    /\ steps[2].op = "kubectl_delete" /\ steps[2].nodes = targets
    /\ \A i \in 1..2 : steps[i].host = <<NodeName(MASTER, 1)>>

\* C31: one invocation uses one task.  The first update creates it, before
\* the detached execution is started, with status RUNNING; every later
\* update is applied to it; and the href returned to the caller is its href.
C31_OneTaskPerInvocation ==
    /\ tTasks <= 1
    /\ \A i \in 1..Len(tLog) : tLog[i].href = 1
    /\ tLog # <<>> => tLog[1].status = "RUNNING"
    /\ tAsync # "off" => (tLog # <<>> /\ tTasks = 1)
    /\ tSync \in {"start", "return", "returned"} => tResource = Some(1)
    /\ tSync = "returned" => tReturned = Some(1)

\* the caller has its href, the execution made three updates and ended
C31_Witness ==
    /\ tSync = "returned"
    /\ tAsync = "ended"
    /\ Len(tLog) = 4
    /\ tLog[4].status = "SUCCESS"
    /\ tReturned = Some(1)
    /\ tTasks = 1

C33_JoinOnlyNewWorkers ==
    req.op = "create_nodes" =>
        /\ \A i \in StepsOf("join") :
              \A k \in 1..Len(steps[i].nodes) :
                  /\ steps[i].nodes[k] \in Range(targets)
                  /\ steps[i].nodes[k] \notin ExistingNames(vms0)
        /\ pc = "cn_join_workers" =>
              Range(joinQueue) \cap ExistingNames(vms0) = {}

\* a worker was added to a cluster of one worker and joined, it alone
C33_Witness ==
    /\ req.op = "create_nodes"
    /\ pc = "done"
    /\ task.status = "SUCCESS"
    /\ LiveWorkers(vms0) = 1
    /\ Len(targets) = 1
    /\ Cardinality(StepsOf("join")) = 1
    /\ \A i \in StepsOf("join") : steps[i].nodes = targets

\* C35: with rollback=true, an addition of nodes that ends in ERROR leaves
\* none of the VMs it has added in the vApp.  (Stated for the runs in which
\* the deletion of the rollback met no failure of its own, which only makes
\* the statement weaker.)
C35_ErrorLeavesNoNewVm ==
    ( /\ req.op = "create_nodes"
      /\ req.rollback
      /\ pc = "done"
      /\ task.status = "ERROR"
      /\ rollbackErr = NoErr )
    => AddedNames = {}

\* two workers were added, the join script failed on one, the task is in
\* ERROR and both are still in the vApp
C35_Witness ==
    /\ req.op = "create_nodes"
    /\ req.rollback
    /\ pc = "done"
    /\ task.status = "ERROR"
    /\ err = Error("ScriptExecutionError", "join_workers")
    /\ rollbackErr = NoErr
    /\ Len(targets) = 2
    /\ AddedNames = Range(targets)

\* C36: when the task of an upgrade is SUCCESS, the template name and
\* revision and the docker, Kubernetes and CNI version tags of the vApp are
\* those of the target template, whichever upgrade steps were run.
C36_SuccessWritesTemplateVersions ==
    (req.op = "upgrade_cluster" /\ pc = "done" /\ task.status = "SUCCESS") =>
        /\ tags.template_name = req.template.name
        /\ tags.template_revision = ToStr(req.template.revision)
        /\ gCluster = VersionsOf(req.template)

\* the cluster recorded a Kubernetes above the template's: no Kubernetes
\* step was run, and the tag now bears the template's lower version
C36_Witness ==
    /\ req.op = "upgrade_cluster"
    /\ pc = "done"
    /\ task.status = "SUCCESS"
    /\ ~gFlags.k8s
    /\ StepsOf("k8s") = {}
    /\ SemverLess(gCluster.k8s, req.cluster.versions.k8s)
    /\ gCluster = VersionsOf(req.template)

\* C39: the rollback of create_cluster deletes only the vApp that bears the
\* requested name and the cluster id of this invocation: the record its
\* lookup returns and every vApp it deletes are of that name and id, the
\* vApp of another cluster is never deleted, and when the lookup finds no
\* such vApp no deletion is issued.
C39_RollbackDeletesOwnVappOnly ==
    req.op = "create_cluster" =>
        /\ rbFound # None =>
              /\ rbFound[1].name = req.cluster_name
              /\ rbFound[1].cluster_id = cluster_id
        /\ \A v \in rbDeleted :
              /\ v.name = req.cluster_name
              /\ v.cluster_id = cluster_id
              /\ v \notin OtherVapps
        /\ deleteIssued => rbFound # None
        /\ rollbackErr.step = "rollback_lookup" =>
              (~deleteIssued /\ rbDeleted = {})

\* the vApp was never created; a vApp of the same name of another cluster
\* was there: the rollback found no cluster and deleted nothing
C39_Witness ==
    /\ req.op = "create_cluster"
    /\ req.rollback
    /\ pc = "done"
    /\ ~atFailure.vappExists
    /\ rollbackErr = Error("ClusterNotFoundError", "rollback_lookup")
    /\ \E o \in others : o.name = req.cluster_name
    /\ ~deleteIssued
    /\ rbDeleted = {}

\* the template name the tags of a vApp give
TemplateNameOf(meta) ==
    IF "template_name" \in DOMAIN meta THEN meta.template_name
    ELSE IF BackwardKey \in DOMAIN meta THEN meta[BackwardKey]
    ELSE ""

\* C34: in the records get_all_clusters returns, the Kubernetes version of
\* a cluster is its version tag when it has one and is derived from its
\* template name when it has none; and the lookup does not fail for a
\* missing key: it fails only when a vApp was tagged while it ran.
C34_K8sVersionTagOrDerived ==
    /\ lkPhase = "returned" =>
          \A id \in DOMAIN lkClusters :
              LET meta == VappOf(lkVapps, id).meta
              IN  lkClusters[id].kubernetes_version =
                     IF "kubernetes_version" \in DOMAIN meta
                     THEN meta.kubernetes_version
                     ELSE DerivedK8s(TemplateNameOf(meta))
    /\ lkPhase = "raised" => lkTagged # {}

\* the three clusters are returned: the tag of the first, which differs
\* from what its template name gives, and the derived versions of the two
\* without a tag
C34_Witness ==
    /\ lkPhase = "returned"
    /\ DOMAIN lkClusters = {1, 2, 3}
    /\ lkClusters[1].kubernetes_version = "1.15.5"
    /\ lkClusters[2].kubernetes_version = "1.15"
    /\ lkClusters[3].kubernetes_version = "Unknown"

\* C37: a lookup that runs while create_cluster tags a new vApp completes
\* with its list of records: it never raises.
C37_LookupCompletes == lkPhase # "raised"

\* the vApp was tagged between the two queries: the second loop raised
C37_Witness ==
    /\ lkPhase = "raised"
    /\ lkTagged = {4}
    /\ 4 \notin DOMAIN lkClusters
    /\ \E v \in QueryRecords(lkVapps, lkName) : v.id = 4

\* C38: two resizes of a cluster to the same count W, both accepted: once
\* the two tasks are SUCCESS or ERROR the cluster has at most W workers.
C38_ConcurrentResizeAtMostWanted ==
    (\A i \in Resizers :
        rzPc[i] = "done" /\ rzStatus[i] \in {"SUCCESS", "ERROR"})
    => rzWorkers <= rzWanted

\* both read one worker and added one each to reach two: there are three
C38_Witness ==
    /\ rzWanted = 2
    /\ \A i \in Resizers :
          rzPc[i] = "done" /\ rzStatus[i] = "SUCCESS" /\ rzDelta[i] = 1
    /\ rzWorkers = 3

\* the drain of delete_nodes failed, in whatever way
DrainFailed ==
    /\ req.op = "delete_nodes"
    /\ steps # <<>>
    /\ steps[1].op = "drain"
    /\ steps[1].result # "ok"

\* C21: a failure of the drain of delete_nodes, of whatever kind, is not
\* the failure the task is marked with: the execution goes on to the
\* deletion of the target nodes.
C21_AnyDrainFailureSwallowed ==
    DrainFailed => (err.step # "drain" /\ pc # "dn_mark_error")

\* the drain failed otherwise than by a script error: the task is ERROR and
\* every node is still there
C21_Witness ==
    /\ DrainFailed
    /\ pc = "done"
    /\ task = [status |-> "ERROR", msg |-> Error("Other", "drain")]
    /\ targets = <<NodeName(WORKER, 1)>>
    /\ vms = vms0

\* C18: whatever fails for one node inside _delete_nodes (the kubectl
\* delete, the lookup of the VM, the undeploy), the other target nodes are
\* still undeployed and removed: a node deletion that ends without a failure
\* of the batch removal (or of the drain before it) has removed every target
\* node and ends SUCCESS.
C18_EveryTargetProcessed ==
    ( /\ req.op = "delete_nodes"
      /\ pc = "done"
      /\ err.step \notin {"drain", "delete_vms"} )
    => (task.status = "SUCCESS" /\ TargetsGone)

\* the lookup of a VM that is not in the vApp ended the deletion before the
\* second target, which is in the vApp, was touched
C18_Witness ==
    /\ req.op = "delete_nodes"
    /\ pc = "done"
    /\ err.step = "get_vm"
    /\ task.status = "ERROR"
    /\ Len(targets) = 2
    /\ targets[1] \notin ExistingNames(vms0)
    /\ \E vm \in vms : vm.name = targets[2] /\ vm.on

\* C17: when the delete call of delete_cluster returns an empty result, the
\* task does not end in ERROR.
C17_EmptyResultNoError ==
    ( /\ req.op = "delete_cluster"
      /\ steps # <<>>
      /\ steps[Len(steps)] = Step("delete_vapp", <<>>, "empty") )
    => task.status # "ERROR"

C17_Witness ==
    /\ req.op = "delete_cluster"
    /\ steps = <<Step("delete_vapp", <<>>, "empty")>>
    /\ pc = "done"
    /\ err = Error("Other", "wait_empty_result")
    /\ task.status = "ERROR"

(***************************************************************************)
(* Properties of get_cluster_upgrade_plan (specification SpecPlan).        *)
(***************************************************************************)
\* the revision tag of the cluster, as a number
PlanCurrentRevision == ParseInt(planCluster.template_revision)

PlanWanted(t) ==
    /\ planCluster.template_name \in t.upgrade_from
    /\ ~(/\ t.name = planCluster.template_name
         /\ t.revision <= PlanCurrentRevision)

\* C7: the plan get_cluster_upgrade_plan returns is the configured
\* templates, in their order, whose upgrade-from set holds the cluster's
\* template name, without those of the same name and a revision not above
\* the cluster's; no template of the plan has the cluster's name and a
\* revision lower than or equal to the cluster's.  (The call raises instead
\* of returning only when the revision tag of the cluster is no number.)
C7_UpgradePlanExact ==
    planResult.done
    => /\ planResult.raised => IntRaises(planCluster.template_revision)
       /\ ~planResult.raised =>
            /\ planResult.upgrades = SelectSeq(planTemplates, PlanWanted)
            /\ \A i \in 1..Len(planResult.upgrades) :
                 ~(/\ planResult.upgrades[i].name = planCluster.template_name
                   /\ planResult.upgrades[i].revision <= PlanCurrentRevision)

C7_Witness ==
    /\ planResult.done
    /\ ~planResult.raised
    /\ planCluster = [template_name |-> "A", template_revision |-> <<1, 0>>]
    /\ Len(planTemplates) = 2
    /\ planTemplates[1] = [name |-> "A", revision |-> 10,
                           upgrade_from |-> {"A"}]
    /\ planTemplates[2] = [name |-> "B", revision |-> 1,
                           upgrade_from |-> {"A", "B"}]
    /\ planResult.upgrades = <<planTemplates[2]>>

(***************************************************************************)
(* Properties of the upgrade decision (specification SpecGate).            *)
(***************************************************************************)
\* C8, as claimed: the decision taken again after an upgrade rewrote the
\* version tags of the cluster with the template's sets none of the three
\* flags.
C8_NothingToUpgrade ==
    gPhase = "redecided" => gFlags = NoFlags

\* C8, as the code has it: the decision taken again after an upgrade
\* rewrote the version tags of the cluster with the template's sets neither
\* upgrade_docker nor upgrade_cni, and sets upgrade_k8s.
C8_OnlyK8sAgain ==
    gPhase = "redecided"
    => /\ gCluster = gTemplate
       /\ ~gFlags.docker
       /\ ~gFlags.cni
       /\ gFlags.k8s

C8_Witness ==
    /\ gPhase = "redecided"
    /\ gCluster = gTemplate
    /\ gTemplate = [docker |-> <<1, 9, 0>>, k8s |-> <<1, 15, 0>>,
                    cni |-> <<0, 7, 0>>]
    /\ gFlags = [docker |-> FALSE, k8s |-> TRUE, cni |-> FALSE]

\* C20, as claimed: the decision sets upgrade_cni whenever the Kubernetes
\* major or minor version of the template differs from the cluster's.
C20_CniForcedOnDifference ==
    ( /\ gPhase = "decided"
      /\ \/ gTemplate.k8s[1] # gCluster.k8s[1]
         \/ gTemplate.k8s[2] # gCluster.k8s[2] )
    => gFlags.cni

\* C20, as the code has it: the decision sets upgrade_cni whenever the
\* Kubernetes major version of the template is greater than the cluster's,
\* or its minor version is greater than the cluster's, whatever the CNI
\* versions are.
C20_CniForcedOnIncrease ==
    ( /\ gPhase = "decided"
      /\ \/ gTemplate.k8s[1] > gCluster.k8s[1]
         \/ gTemplate.k8s[2] > gCluster.k8s[2] )
    => gFlags.cni

C20_Witness ==
    /\ gPhase = "decided"
    /\ gCluster.k8s = <<1, 14, 2>>
    /\ gTemplate.k8s = <<1, 15, 0>>
    /\ gCluster.cni = <<0, 7, 0>>
    /\ gTemplate.cni = <<0, 6, 0>>
    /\ gFlags.cni

(***************************************************************************)
(* Properties of the upgrade.                                              *)
(***************************************************************************)
IsUpgrade == req.op = "upgrade_cluster"

\* the steps logged so far, without their results
OpsNodes(log) == [i \in 1..Len(log) |-> [op |-> log[i].op,
                                          nodes |-> log[i].nodes]]

On(op, nodes) == [op |-> op, nodes |-> nodes]

IsPrefix(s, t) == Len(s) <= Len(t) /\ \A i \in 1..Len(s) : s[i] = t[i]

\* drain, upgrade, uncordon of each worker in turn
ExpectedWorkers(ws) ==
    [i \in 1..(3 * Len(ws)) |->
        LET node == <<ws[((i - 1) \div 3) + 1]>>
        IN  CASE i % 3 = 1 -> On("drain", node)
              [] i % 3 = 2 -> On("k8s", node)
              [] OTHER     -> On("uncordon", node)]

ExpectedSteps ==
    (IF gFlags.k8s
       THEN <<On("drain", UpMasters), On("k8s", UpMasters),
              On("uncordon", UpMasters)>> \o ExpectedWorkers(UpWorkers)
       ELSE <<>>)
    \o (IF gFlags.docker \/ gFlags.cni
          THEN <<On("drain", UpAllNodes)>> ELSE <<>>)
    \o (IF gFlags.docker THEN <<On("docker", UpAllNodes)>> ELSE <<>>)
    \o (IF gFlags.cni THEN <<On("cni", UpMasters)>> ELSE <<>>)
    \o <<On("uncordon", UpAllNodes), On("metadata", <<>>)>>

\* C12: the steps of an upgrade are performed in the order drain master,
\* upgrade Kubernetes on master, uncordon master, then drain, upgrade,
\* uncordon of each worker in turn, then the drain of all nodes only if the
\* runtime or the CNI needs upgrading, the runtime upgrade on all nodes, the
\* CNI apply on the master only, the uncordon of all nodes always, the
\* metadata rewrite; the task is SUCCESS only after all of them, the
\* metadata rewrite included, went well.
C12_UpgradeOrder ==
    (IsUpgrade /\ gPhase # "idle") =>
        /\ IsPrefix(OpsNodes(steps), ExpectedSteps)
        /\ task.status = "SUCCESS" =>
              /\ OpsNodes(steps) = ExpectedSteps
              /\ \A i \in 1..Len(steps) : steps[i].result = "ok"
              /\ gCluster = gTemplate
              /\ tags.template_name = req.template.name
              /\ tags.template_revision = ToStr(req.template.revision)

\* a successful upgrade of Kubernetes and the CNI on a cluster of two workers
C12_Witness ==
    /\ IsUpgrade
    /\ task.status = "SUCCESS"
    /\ gFlags.k8s /\ gFlags.cni
    /\ Len(UpWorkers) = 2
    /\ Len(steps) >= 12

\* a step of the upgrade, the metadata rewrite apart, has failed
UpStepFailed ==
    \E i \in 1..Len(steps) :
        steps[i].result # "ok" /\ steps[i].op # "metadata"

\* C19: once a drain, an upgrade script, the CNI apply or an uncordon of the
\* upgrade has failed, it is the last in-guest step performed, the execution
\* only marks the task ERROR, the nodes stay as the failure left them and
\* the template and version tags are those the upgrade started from.
C19_StepFailureAborts ==
    (IsUpgrade /\ UpStepFailed) =>
        /\ steps[Len(steps)].result # "ok"
        /\ \A i \in 1..(Len(steps) - 1) : steps[i].result = "ok"
        /\ err # NoErr
        /\ pc \in {"up_mark_error", "done", "escaped"}
        /\ pc = "done" => task = [status |-> "ERROR", msg |-> err]
        /\ vms = atFailure.vms
        /\ tags = req.cluster.tags
        /\ gCluster = req.cluster.versions

\* the Kubernetes upgrade of a worker failed after the master was upgraded:
\* the task is ERROR and the worker is left drained
C19_Witness ==
    /\ IsUpgrade
    /\ pc = "done"
    /\ task.status = "ERROR"
    /\ Len(steps) >= 5
    /\ steps[Len(steps)].op = "k8s"
    /\ steps[Len(steps)].result # "ok"
    /\ \E vm \in vms : vm.drained

(***************************************************************************)
(* Properties of the six operations together.                              *)
(***************************************************************************)
\* the targets the upgrade plan holds for the cluster as it starts
InitialTargets == {<<"photon-v2", 2>>, <<"ubuntu", 1>>}

\* the request is one the validation has to reject: no cluster name, an
\* invalid cluster name, a worker count below the minimum, a master among
\* the nodes to delete, a cluster that is not there, a template that is no
\* upgrade target
InvalidAsk ==
    /\ asked.op \in MutatingOps
    /\ \/ asked.cluster_name = <<>>
       \/ /\ asked.op = "create_cluster"
          /\ asked.num < 0 \/ asked.cluster_name = <<"-", "a">>
       \/ /\ asked.op \in {"create_nodes", "resize_cluster"}
          /\ asked.num < 1
       \/ /\ asked.op = "delete_nodes"
          /\ \E i \in 1..Len(asked.names) : StartsWith(asked.names[i], MASTER)
       \/ /\ asked.op \in {"create_nodes", "resize_cluster", "delete_cluster",
                           "upgrade_cluster"}
          /\ asked.cluster_name # ThisCluster \/ vms0 = {}
       \/ /\ asked.op = "delete_nodes"
          /\ asked.names # <<>>
          /\ asked.cluster_name # ThisCluster \/ vms0 = {}
       \/ /\ asked.op = "upgrade_cluster"
          /\ <<asked.names[1], asked.num>> \notin InitialTargets

\* no task, no detached execution, the cluster as it was
NoEffects ==
    /\ pc = "rejected"
    /\ task = NoTask
    /\ req = NoReq
    /\ err = NoErr
    /\ terminalWrites = 0
    /\ steps = <<>>
    /\ ~deleteIssued
    /\ targets = <<>>
    /\ vms = vms0
    /\ IF vms0 = {}
       THEN ~vappExists /\ cluster_id = "" /\ tags = NoTags
       ELSE /\ vappExists
            /\ cluster_id = "uuid-a"
            /\ tags.template_name = default_template_name
            /\ tags.template_revision = ToStr(default_template_revision)
    /\ gPhase = "idle"

\* C15: a request of any of the six mutating operations that the validation
\* has to reject is rejected, and a rejected request has created no task,
\* started no detached execution and changed nothing of the cluster.
C15_RejectionHasNoEffect ==
    (pc = "rejected" \/ InvalidAsk) => NoEffects

\* an upgrade of an existing cluster to the revision it already has
C15_Witness ==
    /\ pc = "rejected"
    /\ asked.op = "upgrade_cluster"
    /\ asked.cluster_name = ThisCluster
    /\ asked.names = <<default_template_name>>
    /\ asked.num = default_template_revision
    /\ vms0 # {}
    /\ task = NoTask

\* C22: a join script is run on a worker only after the token script was run
\* on the master and exited 0; when the token script fails no join script
\* is run; and after a join script that did not exit 0 the join has failed:
\* the execution provisions nothing more and does not end SUCCESS.
C22_JoinAfterMasterToken ==
    /\ \A i \in StepsOf("join") :
         \E j \in StepsOf("token") : j < i /\ steps[j].result = "ok"
    /\ \A j \in StepsOf("token") :
         /\ steps[j].nodes # <<>>
         /\ \A k \in 1..Len(steps[j].nodes) :
              StartsWith(steps[j].nodes[k], MASTER)
         /\ steps[j].result # "ok" => StepsOf("join") = {}
    /\ (\E i \in StepsOf("join") : steps[i].result # "ok")
         => /\ task.status # "SUCCESS"
            /\ pc \notin {"nfs", "success", "cn_success"}

\* two workers added to a cluster and joined after the token script
C22_Witness ==
    /\ req.op = "create_nodes"
    /\ task.status = "SUCCESS"
    /\ Len(steps) = 3
    /\ steps[1].op = "token" /\ steps[1].result = "ok"
    /\ steps[2].op = "join" /\ steps[3].op = "join"
    /\ steps[2].nodes # steps[3].nodes

\* the detached execution has ended: it ran to its last statement, or an
\* exception left it
Ended == pc \in {"done", "escaped"}

TerminalStatus == task.status \in {"SUCCESS", "ERROR"}

\* C13: the task has no status but RUNNING, SUCCESS and ERROR; a terminal
\* status is written at most once and nothing is written after it; and a
\* detached execution that has ended has written exactly one terminal
\* update.
C13_OneTerminalUpdate ==
    /\ task = NoTask \/ task.status \in {"RUNNING", "SUCCESS", "ERROR"}
    /\ terminalWrites <= 1
    /\ TerminalStatus <=> terminalWrites = 1
    /\ TerminalStatus => pc = "done"
    /\ Ended => terminalWrites = 1

\* an execution that an exception left: the task is still RUNNING
C13_Witness ==
    /\ pc = "escaped"
    /\ task.status = "RUNNING"
    /\ terminalWrites = 0

\* C14: every detached execution that was dispatched (its task was created,
\* RUNNING) eventually sets the task to SUCCESS or ERROR.
C14_EveryExecutionTerminates ==
    (task.status = "RUNNING") ~> TerminalStatus

\* the execution of an upgrade left by the failure of the task update of
\* its exception handler
C14_Witness ==
    /\ pc = "escaped"
    /\ IsUpgrade
    /\ err # NoErr
    /\ task.status = "RUNNING"

(***************************************************************************)
(* Properties of is_valid_cluster_name (specification SpecName).           *)
(***************************************************************************)
\* the labels of a name: what stands between its dots, before the first and
\* after the last
RECURSIVE GrammarLabels(_, _)
GrammarLabels(name, label) ==
    IF name = <<>> THEN <<label>>
    ELSE IF Head(name) = "."
    THEN <<label>> \o GrammarLabels(Tail(name), <<>>)
    ELSE GrammarLabels(Tail(name), Append(label, Head(name)))

GrammarLabel(label) ==
    /\ Len(label) \in 1..63
    /\ \A i \in 1..Len(label) : label[i] \in {"a", "Z", "7", "-"}
    /\ label[1] # "-"
    /\ label[Len(label)] # "-"

GrammarValid(name) ==
    /\ Len(name) <= 25
    /\ \A i \in 1..Len(GrammarLabels(name, <<>>)) :
         GrammarLabel(GrammarLabels(name, <<>>)[i])

\* C9: is_valid_cluster_name accepts a name exactly when it has at most 25
\* characters and is made of dot-separated labels, each of 1 to 63 letters,
\* digits and hyphens, neither starting nor ending with a hyphen.
C9_AcceptsExactlyGrammar ==
    vresult # "pending" => (vresult = "accepted" <=> GrammarValid(vname))

\* a name with a line feed as its last character is accepted
C9_Witness ==
    /\ vresult = "accepted"
    /\ vname = <<"a", "\n">>

====
